---- MODULE Spec2Model ----
(***************************************************************************)
(* A model of the VCF processing library of 1kgp-research:                 *)
(*   vcf/handler.py     Handler.run, the line dispatcher                   *)
(*   vcf/comparer.py    Comparer / DefaultComparer                         *)
(*   vcf/predictor.py   Predictor / PredictorJoao / PredictorMariana       *)
(*   vcf/population.py  Population                                         *)
(*   vcf/model.py       Model.compute_stats and the two add_*_values       *)
(*                                                                         *)
(* Text is modelled as follows.  A line is the sequence of its tab         *)
(* separated fields.  A descriptive field is a string; a genotype field    *)
(* is the sequence of its characters, so that the splitting done by        *)
(* process_variant is computed, character by character.  Python's 0-based  *)
(* indices are kept 0-based; a Python list l is a sequence s with          *)
(* l[i] = s[i+1].  A Python dict, whose iteration order is its insertion   *)
(* order, is a sequence of <<key, value>> entries.  A number that is not   *)
(* an integer is an exact rational [num, den].  An INFO field is the list  *)
(* of its ';'-separated entries.  An exception ends the call that raised   *)
(* it and is recorded in err (a run) or in the *_ret variable (a call).    *)
(***************************************************************************)
EXTENDS Integers, Sequences, FiniteSets, TLC

VARIABLES
    \* ---- Handler / Comparer / Predictor: one consumer instance and its run
    phase,               \* "new" | "configured" | "running" | "done" | "failed"
    has_genotype_field,  \* "None" | "True" | "False"  (Handler.has_genotype_field)
    input_individuals,   \* Comparer.input_individuals (a list)
    individual_indeces,  \* dict individual -> column index, in insertion order
    pairs,               \* Comparer.pairs
    idx_pairs,           \* Comparer.idx_pairs
    values,              \* Comparer.values: a list while running, a dict after terminate
    err,                 \* the exception that ended the run, or NoError
    ret,                 \* outcome of the last compare call, or NoCall
    \* ---- history of the run (not program state)
    hdr,                 \* individuals of the header line handled last
    n_headers,           \* process_individuals calls
    n_meta,              \* process_meta calls
    n_data,              \* process_data calls
    n_pre,               \* process_data calls made before the first header line
    n_terminate,         \* terminate calls
    expected,            \* per unordered pair: data rows in which the allele sets differ
    \* ---- Population
    individual_to_group, \* dict identifier -> group
    group_to_individuals,\* defaultdict(list) group -> list of identifiers
    population_ret,      \* the last Population call and its outcome, or NoCall
    \* ---- Model
    within,              \* dict group -> summary
    between,             \* TwoWayDict.dict: normalized pair of groups -> summary
    model_ret,           \* the last Model call and its outcome, or NoCall
    \* ---- Predictor (its population is the Population above)
    handler_class,       \* "DefaultComparer" | "RandomComparer" | "PredictorJoao" | "PredictorMariana"
    t1,                  \* the threshold of a vote, a rational
    t2,                  \* the threshold of a label, a rational
    individuals,         \* Predictor.individuals: the list to classify
    polymorphisms,       \* [is_none, ids]: None, or the set of wanted variant ids
    polymorphism_count,  \* rows seen whose id is wanted
    population_labels,   \* group of each header column, "---" when not registered
    from_info,           \* frequencies are read from the INFO column
    structures,          \* dict individual -> list of votes
    labels,              \* dict individual -> label
    terminate_early,     \* TRUE once process_data has set the attribute
    set_iteration,       \* the order in which this interpreter iterates SUPERPOPULATIONS
    n_late,              \* history: lines dispatched after terminate_early was set
    seen_ids,            \* history: identifiers of the rows processed under a filter
    \* ---- calls of the functions of a predictor on their own
    strategy_ret,        \* the last call of a strategy or of terminate, or NoCall
    \* ---- RandomComparer
    salt_hashes,         \* identifier -> hash(self.salt + identifier) & mask
    \* ---- Handler.run on raw lines, with callbacks that record and return
    stream,              \* the lines of the stream, each a sequence of characters
    pos,                 \* lines read from the stream so far
    callbacks            \* history: the callbacks run has invoked, with their arguments

handlerVars == <<phase, has_genotype_field, err, hdr, n_headers, n_meta, n_data,
                 n_pre, n_terminate>>
comparerVars == <<input_individuals, individual_indeces, pairs, idx_pairs, values,
                  ret, expected>>
populationVars == <<individual_to_group, group_to_individuals, population_ret>>
modelVars == <<within, between, model_ret>>
predictorVars == <<handler_class, t1, t2, individuals, polymorphisms, polymorphism_count,
                   population_labels, from_info, structures, labels, terminate_early,
                   set_iteration, n_late, seen_ids>>
callVars == <<strategy_ret>>
randomVars == <<salt_hashes>>
dispatchVars == <<stream, pos, callbacks>>
vars == <<handlerVars, comparerVars, populationVars, modelVars, predictorVars, callVars,
          randomVars, dispatchVars>>

\* what a step of a comparer leaves alone
notComparerVars == <<populationVars, modelVars, predictorVars, callVars, randomVars,
                     dispatchVars>>
\* what a step of a Population leaves alone
notPopulationVars == <<handlerVars, comparerVars, modelVars, predictorVars, callVars,
                       randomVars, dispatchVars>>
\* what a step of a predictor leaves alone
notPredictorVars == <<input_individuals, pairs, idx_pairs, values, ret, expected,
                      populationVars, modelVars, callVars, randomVars, dispatchVars>>
\* what a step of a Model leaves alone
notModelVars == <<handlerVars, comparerVars, populationVars, predictorVars, callVars,
                  randomVars, dispatchVars>>

----------------------------------------------------------------------------
(* Bounds of the model *)

\* lines of one stream
MaxLines == 3

\* identifiers held by the group lists of a Population, repetitions counted
MaxMembers == 3

\* observations in one collection handed to a Model
MaxObs == 2

\* groups in a frequency table handed to a strategy
MaxGroups == 3

(* Program constants *)

FIXED_FIELDS_LENGTH == 8

----------------------------------------------------------------------------
(* Universe of inputs *)

\* identifiers that occur as targets and as header columns
Ids == {"a", "b", "c"}

\* an identifier that no header declares and no caller configures
Stranger == "z"

NoError == [type |-> "none"]
NoCall == [call |-> <<>>]

\* genotype fields, as character sequences
GenotypeFields ==
    { <<"0", "|", "0">>,
      <<"0", "|", "1">>,
      <<"1", "/", "1", ":", "7">>,
      <<"2">> }

\* the descriptive columns of a header line
HeaderNames == <<"#CHROM", "POS", "ID", "REF", "ALT", "QUAL", "FILTER", "INFO">>

\* the first field of a metadata line
MetaField == "##fileformat=VCFv4.1"

Range(s) == {s[i] : i \in DOMAIN s}

\* the sequences without repetition over S
InjSeqs(S) ==
    UNION {{s \in [1..n -> S] : \A i, j \in 1..n : i # j => s[i] # s[j]} :
           n \in 0..Cardinality(S)}

----------------------------------------------------------------------------
(* Python built-ins *)

Contains(s, c) == \E i \in DOMAIN s : s[i] = c

\* str.split(sep) for a one-character separator
RECURSIVE Split(_, _)
Split(s, sep) ==
    IF ~Contains(s, sep) THEN <<s>>
    ELSE LET i == CHOOSE k \in DOMAIN s : s[k] = sep /\ \A j \in 1..(k-1) : s[j] # sep
         IN <<SubSeq(s, 1, i-1)>> \o Split(SubSeq(s, i+1, Len(s)), sep)

\* str.strip()
RECURSIVE Strip(_)
Strip(s) ==
    IF s = <<>> THEN s
    ELSE IF s[1] = " " THEN Strip(Tail(s))
    ELSE IF s[Len(s)] = " " THEN Strip(SubSeq(s, 1, Len(s)-1))
    ELSE s

\* dict[key] = value on an insertion-ordered dict
DictSet(d, key, value) ==
    IF \E i \in DOMAIN d : d[i][1] = key
    THEN [i \in DOMAIN d |-> IF d[i][1] = key THEN <<key, value>> ELSE d[i]]
    ELSE Append(d, <<key, value>>)

DictHas(d, key) == \E i \in DOMAIN d : d[i][1] = key
DictGet(d, key) == d[CHOOSE i \in DOMAIN d : d[i][1] = key][2]

\* del dict[key]
DictDel(d, key) == SelectSeq(d, LAMBDA e : e[1] # key)

\* list.remove(x): the list without its first x
ListRemove(l, x) ==
    LET i == CHOOSE k \in DOMAIN l : l[k] = x /\ \A j \in 1..(k-1) : l[j] # x
    IN SubSeq(l, 1, i-1) \o SubSeq(l, i+1, Len(l))

DictKeys(d) == [i \in DOMAIN d |-> d[i][1]]
DictValues(d) == [i \in DOMAIN d |-> d[i][2]]

\* list(itertools.combinations(s, 2))
RECURSIVE Combinations2(_)
Combinations2(s) ==
    IF Len(s) < 2 THEN <<>>
    ELSE [j \in 1..(Len(s)-1) |-> <<s[1], s[j+1]>>] \o Combinations2(Tail(s))

\* Python slice l[from:] and l[:to] with 0-based bounds
SliceFrom(l, from) == SubSeq(l, from + 1, Len(l))
SliceTo(l, to) == SubSeq(l, 1, IF to < Len(l) THEN to ELSE Len(l))

----------------------------------------------------------------------------
(* Handler.run: the three kinds of line and the splitting of a line *)

IsMetaLine(fields) == fields[1] = MetaField
IsHeaderLine(fields) == ~IsMetaLine(fields) /\ fields[1] = HeaderNames[1]

\* has_genotype_field as set by a header line
HeaderHasGenotype(fields) == IF "FORMAT" \in Range(fields) THEN "True" ELSE "False"

HeaderIndividuals(fields) ==
    IF HeaderHasGenotype(fields) = "True"
    THEN SliceFrom(fields, FIXED_FIELDS_LENGTH + 1)
    ELSE SliceFrom(fields, FIXED_FIELDS_LENGTH)

fixed_fields(fields) == SliceTo(fields, FIXED_FIELDS_LENGTH)

\* has_genotype_field None is falsy
data_fields(fields, hgf) ==
    IF hgf = "True"
    THEN SliceFrom(fields, FIXED_FIELDS_LENGTH + 1)
    ELSE SliceFrom(fields, FIXED_FIELDS_LENGTH)


\* format_field = fields[FIXED_FIELDS_LENGTH] raises IndexError on a short line
FormatIndexError(fields, hgf) == hgf = "True" /\ Len(fields) <= FIXED_FIELDS_LENGTH

----------------------------------------------------------------------------
(* Lines the stream can hold *)

HeaderLines ==
    {HeaderNames \o fmt \o inds : fmt \in {<<>>, <<"FORMAT">>}, inds \in InjSeqs(Ids)}

DescriptiveFields == <<"1", "100", "rs1", "A", "G", ".", "PASS", ".">>

\* data rows with n genotype columns, with a FORMAT column when the header had one
ComparerDataLines(n, hgf) ==
    {DescriptiveFields \o (IF hgf = "True" THEN <<"GT">> ELSE <<>>) \o gts :
        gts \in [1..n -> GenotypeFields]}

\* the genotype columns a data row of the stream has: as many as the header declared
RowWidth == IF n_headers = 0 THEN Cardinality(Ids) ELSE Len(hdr)

----------------------------------------------------------------------------
(* vcf/comparer.py *)

\* Comparer.process_individuals, the loop over enumerate(individuals)
RECURSIVE IndexLoop(_, _, _, _)
IndexLoop(vcf_individuals, wanted, d, k) ==
    IF k > Len(vcf_individuals) THEN d
    ELSE IndexLoop(vcf_individuals, wanted,
                   IF vcf_individuals[k] \in Range(wanted)
                   THEN DictSet(d, vcf_individuals[k], k - 1) ELSE d,
                   k + 1)

\* the last element of wanted that is not in individuals
LastAbsent(wanted, vcf_individuals) ==
    LET i == CHOOSE k \in DOMAIN wanted :
                 /\ wanted[k] \notin Range(vcf_individuals)
                 /\ \A j \in (k+1)..Len(wanted) : wanted[j] \in Range(vcf_individuals)
    IN wanted[i]

\* the first element of wanted that is not in individuals
FirstAbsent(wanted, vcf_individuals) ==
    LET i == CHOOSE k \in DOMAIN wanted :
                 /\ wanted[k] \notin Range(vcf_individuals)
                 /\ \A j \in 1..(k-1) : wanted[j] \in Range(vcf_individuals)
    IN wanted[i]

\* the exception process_individuals raises, or NoError
MissingIndividual(wanted, d, vcf_individuals) ==
    IF /\ Len(wanted) > Len(d)
       /\ \E k \in DOMAIN wanted : wanted[k] \notin Range(vcf_individuals)
    THEN [type |-> "Exception", individual |-> FirstAbsent(wanted, vcf_individuals)]
    ELSE NoError

\* int(), the default init_factory
init_factory == 0

\* DefaultComparer.process_variant
DefaultComparer_process_variant(variant_field) ==
    LET genotype == Split(variant_field, ":")[1]
        alleles == IF Contains(genotype, "/") THEN Split(genotype, "/")
                   ELSE IF Contains(genotype, "|") THEN Split(genotype, "|")
                   ELSE <<genotype>>
    IN [i \in DOMAIN alleles |-> Strip(alleles[i])]

\* an amount that is the number of alleles one individual has and the other
\* has not
update_comparison_by_alleles(variant1, variant2) ==
    LET set1 == {variant1[i] : i \in DOMAIN variant1} \ {<<"0">>}
        set2 == {variant2[i] : i \in DOMAIN variant2} \ {<<"0">>}
    IN Cardinality((set1 \ set2) \cup (set2 \ set1))

\* a comparison of the allele lists instead of the allele sets
update_comparison_lists(variant1, variant2) ==
    IF variant1 # variant2 THEN 1 ELSE 0

\* DefaultComparer.update_comparison: the amount added to values[pair_idx]
update_comparison(variant1, variant2) ==
    LET set1 == {variant1[i] : i \in DOMAIN variant1} \ {<<"0">>}
        set2 == {variant2[i] : i \in DOMAIN variant2} \ {<<"0">>}
    IN IF set1 # set2 THEN 1 ELSE 0

\* Comparer.process_data raises IndexError when a wanted column is missing
DataIndexError(df, d) == \E i \in DOMAIN d : d[i][2] >= Len(df)

\* Comparer.process_data: the new list of values
Comparer_process_data(df, d, ip, vals) ==
    LET processed == [k \in DOMAIN df |->
                        IF \E i \in DOMAIN d : d[i][2] = k - 1
                        THEN DefaultComparer_process_variant(df[k])
                        ELSE df[k]]
    IN [i \in DOMAIN ip |->
            vals[i] + update_comparison(processed[ip[i][1] + 1], processed[ip[i][2] + 1])]

\* a terminate that stores a pair of each individual with itself as well
RECURSIVE terminate_with_self(_, _, _)
terminate_with_self(ps, vals, i) ==
    IF i > Len(ps) THEN <<>>
    ELSE terminate_with_self(ps, vals, i + 1)
         @@ (<<ps[i][1], ps[i][2]>> :> vals[i])
         @@ (<<ps[i][2], ps[i][1]>> :> vals[i])
         @@ (<<ps[i][1], ps[i][1]>> :> init_factory)
         @@ (<<ps[i][2], ps[i][2]>> :> init_factory)

\* a terminate that stores each pair under one ordering only
RECURSIVE terminate_one_order(_, _, _)
terminate_one_order(ps, vals, i) ==
    IF i > Len(ps) THEN <<>>
    ELSE (<<ps[i][1], ps[i][2]>> :> vals[i]) @@ terminate_one_order(ps, vals, i + 1)

\* Comparer.terminate: the dict new_values; a later assignment to a key wins
RECURSIVE Comparer_terminate(_, _, _)
Comparer_terminate(ps, vals, i) ==
    IF i > Len(ps) THEN <<>>
    ELSE Comparer_terminate(ps, vals, i + 1)
         @@ (<<ps[i][1], ps[i][2]>> :> vals[i])
         @@ (<<ps[i][2], ps[i][1]>> :> vals[i])

\* a lookup that stores and returns the default for a pair it does not hold
compare_defaulting(vals, id1, id2) ==
    IF <<id1, id2>> \in DOMAIN vals
    THEN [call |-> <<id1, id2>>, outcome |-> "value", value |-> vals[<<id1, id2>>],
          values |-> vals]
    ELSE [call |-> <<id1, id2>>, outcome |-> "value", value |-> init_factory,
          values |-> (<<id1, id2>> :> init_factory) @@ vals]

\* Comparer.compare: the outcome of self.values[id1, id2] and self.values after it
Comparer_compare(vals, id1, id2) ==
    IF <<id1, id2>> \in DOMAIN vals
    THEN [call |-> <<id1, id2>>, outcome |-> "value", value |-> vals[<<id1, id2>>],
          values |-> vals]
    ELSE [call |-> <<id1, id2>>, outcome |-> "KeyError", value |-> 0,
          values |-> vals]


----------------------------------------------------------------------------
(* What the stream said, read independently of the comparer's bookkeeping *)

UnorderedPairs == {p \in SUBSET Ids : Cardinality(p) = 2}

\* the tokens of s between separators, any of seps separating
RECURSIVE SplitAny(_, _)
SplitAny(s, seps) ==
    IF \A i \in DOMAIN s : s[i] \notin seps THEN <<s>>
    ELSE LET i == CHOOSE k \in DOMAIN s :
                      s[k] \in seps /\ \A j \in 1..(k-1) : s[j] \notin seps
         IN <<SubSeq(s, 1, i-1)>> \o SplitAny(SubSeq(s, i+1, Len(s)), seps)

\* the genotype call: the first colon-delimited token
GenotypeCall(field) == SplitAny(field, {":"})[1]

\* the set of alleles of the call other than the reference allele "0"
NonReferenceAlleles(field) == Range(SplitAny(GenotypeCall(field), {"/", "|"})) \ {<<"0">>}

\* the field of individual x in a row whose columns are those of header
FieldOf(x, header, df) == df[CHOOSE k \in DOMAIN header : header[k] = x]

RowDiffers(p, header, df) ==
    /\ p \subseteq Range(header)
    /\ p \subseteq Range(input_individuals)
    /\ \E x, y \in p : NonReferenceAlleles(FieldOf(x, header, df)) #
                       NonReferenceAlleles(FieldOf(y, header, df))

----------------------------------------------------------------------------
(* A DefaultComparer and one run of it *)

InitRun ==
    /\ phase = "new"
    /\ has_genotype_field = "None"
    /\ input_individuals = <<>>
    /\ individual_indeces = <<>>
    /\ pairs = <<>>
    /\ idx_pairs = <<>>
    /\ values = <<>>
    /\ err = NoError
    /\ ret = NoCall
    /\ hdr = <<>>
    /\ n_headers = 0
    /\ n_meta = 0
    /\ n_data = 0
    /\ n_pre = 0
    /\ n_terminate = 0
    /\ expected = [p \in UnorderedPairs |-> 0]

InitPopulation ==
    /\ individual_to_group = <<>>
    /\ group_to_individuals = <<>>
    /\ population_ret = NoCall

\* no function has been called on its own
\* no stream of raw lines is at hand
NoStream == stream = <<>> /\ pos = 0 /\ callbacks = <<>>

InitCalls == strategy_ret = NoCall /\ salt_hashes = <<>> /\ NoStream

InitModel ==
    /\ within = <<>>
    /\ between = <<>>
    /\ model_ret = NoCall

\* Predictor.__init__
InitPredictorFields ==
    /\ individuals = <<>>
    /\ polymorphisms = [is_none |-> TRUE, ids |-> {}]
    /\ polymorphism_count = 0
    /\ population_labels = <<>>
    /\ from_info = FALSE
    /\ structures = <<>>
    /\ labels = <<>>
    /\ terminate_early = FALSE
    /\ n_late = 0
    /\ seen_ids = {}

\* Predictor.__init__ with the default thresholds; a comparer has none of these
InitPredictor ==
    /\ t1 = [num |-> 0, den |-> 1]
    /\ t2 = [num |-> 0, den |-> 1]
    /\ set_iteration = <<"AFR", "AMR", "EUR", "SAS", "EAS">>
    /\ InitPredictorFields

Init ==
    /\ handler_class = "DefaultComparer"
    /\ InitRun /\ InitPopulation /\ InitModel /\ InitPredictor /\ InitCalls

n_lines == n_meta + n_headers + n_data

\* Comparer.set_individuals
set_individuals(inp) ==
    /\ handler_class = "DefaultComparer"
    /\ phase = "new"
    /\ input_individuals' = inp
    /\ individual_indeces' = <<>>
    /\ phase' = "configured"
    /\ UNCHANGED <<has_genotype_field, err, hdr, n_headers, n_meta, n_data, n_pre,
                   n_terminate, pairs, idx_pairs, values, ret, expected>>
    /\ UNCHANGED notComparerVars

\* Handler.run up to the loop: prepare()
ComparerRunPrepare ==
    /\ handler_class = "DefaultComparer"
    /\ phase = "configured"
    /\ phase' = "running"
    /\ UNCHANGED <<has_genotype_field, err, hdr, n_headers, n_meta, n_data, n_pre,
                   n_terminate, comparerVars>>
    /\ UNCHANGED notComparerVars

\* Handler.run on a line that starts with "##": DefaultComparer.process_meta
ComparerRunMeta(fields) ==
    /\ handler_class = "DefaultComparer"
    /\ phase = "running"
    /\ n_lines < MaxLines
    /\ IsMetaLine(fields)
    /\ n_meta' = n_meta + 1
    /\ UNCHANGED <<phase, has_genotype_field, err, hdr, n_headers, n_data, n_pre,
                   n_terminate, comparerVars>>
    /\ UNCHANGED notComparerVars

\* Handler.run on a line that starts with "#": Comparer.process_individuals
ComparerRunHeader(fields) ==
    /\ handler_class = "DefaultComparer"
    /\ phase = "running"
    /\ n_lines < MaxLines
    /\ IsHeaderLine(fields)
    /\ LET vcf_individuals == HeaderIndividuals(fields)
           d == IndexLoop(vcf_individuals, input_individuals, individual_indeces, 1)
           e == MissingIndividual(input_individuals, d, vcf_individuals)
       IN /\ has_genotype_field' = HeaderHasGenotype(fields)
          /\ individual_indeces' = d
          /\ hdr' = vcf_individuals
          /\ n_headers' = n_headers + 1
          /\ err' = e
          /\ IF e # NoError
             THEN /\ phase' = "failed"
                  /\ UNCHANGED <<pairs, idx_pairs, values>>
             ELSE /\ phase' = phase
                  /\ pairs' = Combinations2(DictKeys(d))
                  /\ idx_pairs' = Combinations2(DictValues(d))
                  /\ values' = [i \in DOMAIN Combinations2(DictKeys(d)) |-> init_factory]
    /\ UNCHANGED <<input_individuals, ret, expected, n_meta, n_data, n_pre,
                   n_terminate>>
    /\ UNCHANGED notComparerVars

\* Handler.run on any other line: Comparer.process_data
ComparerRunData(fields) ==
    /\ handler_class = "DefaultComparer"
    /\ phase = "running"
    /\ n_lines < MaxLines
    /\ ~IsMetaLine(fields) /\ ~IsHeaderLine(fields)
    /\ LET df == data_fields(fields, has_genotype_field)
       IN IF FormatIndexError(fields, has_genotype_field)
          THEN /\ err' = [type |-> "IndexError"]
               /\ phase' = "failed"
               /\ UNCHANGED <<values, expected, n_data, n_pre>>
          ELSE /\ n_data' = n_data + 1
               /\ n_pre' = IF n_headers = 0 THEN n_pre + 1 ELSE n_pre
               /\ expected' = [p \in UnorderedPairs |->
                                  IF RowDiffers(p, hdr, df)
                                  THEN expected[p] + 1 ELSE expected[p]]
               /\ IF DataIndexError(df, individual_indeces)
                  THEN /\ err' = [type |-> "IndexError"]
                       /\ phase' = "failed"
                       /\ UNCHANGED values
                  ELSE /\ values' = Comparer_process_data(df, individual_indeces,
                                                          idx_pairs, values)
                       /\ UNCHANGED <<err, phase>>
    /\ UNCHANGED <<has_genotype_field, hdr, n_headers, n_meta, n_terminate,
                   input_individuals, individual_indeces, pairs, idx_pairs, ret>>
    /\ UNCHANGED notComparerVars

\* a terminate that leaves the loop of run open
ComparerRunEndAgain ==
    /\ handler_class = "DefaultComparer"
    /\ phase = "running"
    /\ values' = Comparer_terminate(pairs, values, 1)
    /\ pairs' = <<>>
    /\ idx_pairs' = <<>>
    /\ n_terminate' = n_terminate + 1
    /\ UNCHANGED <<phase, has_genotype_field, err, hdr, n_headers, n_meta, n_data, n_pre,
                   input_individuals, individual_indeces, ret, expected>>
    /\ UNCHANGED notComparerVars

\* Handler.run at the end of the stream: Comparer.terminate
ComparerRunEnd ==
    /\ handler_class = "DefaultComparer"
    /\ phase = "running"
    /\ values' = Comparer_terminate(pairs, values, 1)
    /\ pairs' = <<>>
    /\ idx_pairs' = <<>>
    /\ n_terminate' = n_terminate + 1
    /\ phase' = "done"
    /\ UNCHANGED <<has_genotype_field, err, hdr, n_headers, n_meta, n_data, n_pre,
                   input_individuals, individual_indeces, ret, expected>>
    /\ UNCHANGED notComparerVars

\* Comparer.compare on the finalized comparer
compare(id1, id2) ==
    /\ handler_class = "DefaultComparer"
    /\ phase = "done"
    /\ LET r == Comparer_compare(values, id1, id2)
       IN /\ ret' = [call |-> r.call, outcome |-> r.outcome, value |-> r.value]
          /\ values' = r.values
    /\ UNCHANGED <<phase, has_genotype_field, err, hdr, n_headers, n_meta, n_data, n_pre,
                   n_terminate, input_individuals, individual_indeces, pairs, idx_pairs,
                   expected>>
    /\ UNCHANGED notComparerVars

\* A stream as the input format defines it: one header line at most
NextComparer ==
    \/ \E inp \in InjSeqs(Ids) : set_individuals(inp)
    \/ ComparerRunPrepare
    \/ ComparerRunMeta(<<MetaField>>)
    \/ \E fields \in HeaderLines : n_headers = 0 /\ ComparerRunHeader(fields)
    \/ \E fields \in ComparerDataLines(RowWidth, has_genotype_field) : ComparerRunData(fields)
    \/ ComparerRunEnd
    \/ \E id1, id2 \in Ids \cup {Stranger} : compare(id1, id2)

SpecComparer == Init /\ [][NextComparer]_vars

----------------------------------------------------------------------------
(* Claims about the pairwise difference accumulator *)

Targets == Range(input_individuals)

\* the run reached the end of a stream that had its header line
Consumed == phase = "done" /\ n_headers = 1

\* C1: after one complete consumption, for every two distinct configured
\* targets a and b, compare(a, b) is defined and equals compare(b, a).
C1_CompareSymmetric ==
    Consumed =>
        \A a, b \in Targets :
            a # b =>
                LET ab == Comparer_compare(values, a, b)
                    ba == Comparer_compare(values, b, a)
                IN /\ ab.outcome = "value"
                   /\ ba.outcome = "value"
                   /\ ab.value = ba.value

\* a finalized comparer of three targets, not in header order, with a pair that differs
C1_Witness ==
    /\ Consumed
    /\ Len(input_individuals) = 3
    /\ input_individuals # hdr
    /\ \E a, b \in Targets : a # b /\ Comparer_compare(values, b, a).value = 2

\* C2: after consumption compare(a, b) is the number of data rows in which the
\* set of non-"0" alleles of a's genotype call differs from that of b's call,
\* for any header column order and any order of the targets.
C2_CountsDifferingRows ==
    (Consumed /\ n_pre = 0) =>
        \A a, b \in Targets :
            a # b =>
                /\ Comparer_compare(values, a, b).outcome = "value"
                /\ Comparer_compare(values, a, b).value = expected[{a, b}]

\* two rows consumed, targets in another order than the header's columns, one
\* pair differing in both rows and one in none
C2_Witness ==
    /\ Consumed /\ n_pre = 0 /\ n_data = 2
    /\ Len(hdr) = 3 /\ Len(input_individuals) = 3
    /\ \E i \in 1..3 : input_individuals[i] # hdr[i]
    /\ \E p, q \in UnorderedPairs : expected[p] = 2 /\ expected[q] = 0
    /\ \A a, b \in Targets : a # b => Comparer_compare(values, a, b).value = expected[{a, b}]

\* C3: after a consumption, compare(id1, id2) with an identifier never passed to
\* set_individuals fails with a lookup error and leaves every accumulated
\* value as it was.
C3_LookupErrorKeepsValues ==
    [][\A id1, id2 \in Ids \cup {Stranger} :
          (compare(id1, id2) /\ (id1 \notin Targets \/ id2 \notin Targets)) =>
              /\ ret'.outcome = "KeyError"
              /\ values' = values]_vars

\* a failed lookup on a comparer that holds a non-zero count
C3_Witness ==
    /\ Consumed
    /\ ret # NoCall
    /\ ret.outcome = "KeyError"
    /\ \E i \in 1..2 : ret.call[i] \notin Targets
    /\ \E a, b \in Targets : a # b /\ Comparer_compare(values, a, b).value >= 1


----------------------------------------------------------------------------
(* vcf/population.py *)

Groups == {"A", "B"}

\* Population.has_individual
has_individual(individual) == DictHas(individual_to_group, individual)

\* self.group_to_individuals[group] on the defaultdict(list)
GroupList(g2i, group) == IF DictHas(g2i, group) THEN DictGet(g2i, group) ELSE <<>>

\* the identifiers in the lists of all groups, repetitions counted
RECURSIVE Members(_)
Members(g2i) == IF g2i = <<>> THEN 0 ELSE Len(g2i[1][2]) + Members(Tail(g2i))

\* Population.add_individual
add_individual(identifier, group) ==
    /\ Members(group_to_individuals) < MaxMembers
    /\ individual_to_group' = DictSet(individual_to_group, identifier, group)
    /\ group_to_individuals' =
           DictSet(group_to_individuals, group,
                   Append(GroupList(group_to_individuals, group), identifier))
    /\ population_ret' = [call |-> <<"add_individual", identifier>>, outcome |-> "ok"]
    /\ UNCHANGED notPopulationVars

\* a remove_individual that drops a group when its list becomes empty
remove_individual_and_group(identifier) ==
    /\ IF ~DictHas(individual_to_group, identifier)
       THEN /\ population_ret' = [call |-> <<"remove_individual", identifier>>,
                                  outcome |-> "KeyError"]
            /\ UNCHANGED <<individual_to_group, group_to_individuals>>
       ELSE LET group == DictGet(individual_to_group, identifier)
                members == GroupList(group_to_individuals, group)
            IN /\ individual_to_group' = DictDel(individual_to_group, identifier)
               /\ IF identifier \in Range(members)
                  THEN /\ group_to_individuals' =
                              IF ListRemove(members, identifier) = <<>>
                              THEN DictDel(group_to_individuals, group)
                              ELSE DictSet(group_to_individuals, group,
                                           ListRemove(members, identifier))
                       /\ population_ret' = [call |-> <<"remove_individual", identifier>>,
                                             outcome |-> "ok"]
                  ELSE /\ group_to_individuals' =
                              DictSet(group_to_individuals, group, members)
                       /\ population_ret' = [call |-> <<"remove_individual", identifier>>,
                                             outcome |-> "ValueError"]
    /\ UNCHANGED notPopulationVars

\* Population.remove_individual
remove_individual(identifier) ==
    /\ IF ~DictHas(individual_to_group, identifier)
       THEN /\ population_ret' = [call |-> <<"remove_individual", identifier>>,
                                  outcome |-> "KeyError"]
            /\ UNCHANGED <<individual_to_group, group_to_individuals>>
       ELSE LET group == DictGet(individual_to_group, identifier)
                members == GroupList(group_to_individuals, group)
            IN /\ individual_to_group' = DictDel(individual_to_group, identifier)
               /\ IF identifier \in Range(members)
                  THEN /\ group_to_individuals' =
                              DictSet(group_to_individuals, group,
                                      ListRemove(members, identifier))
                       /\ population_ret' = [call |-> <<"remove_individual", identifier>>,
                                             outcome |-> "ok"]
                  ELSE /\ group_to_individuals' =
                              DictSet(group_to_individuals, group, members)
                       /\ population_ret' = [call |-> <<"remove_individual", identifier>>,
                                             outcome |-> "ValueError"]
    /\ UNCHANGED notPopulationVars

NextPopulation ==
    \/ \E identifier \in Ids, group \in Groups : add_individual(identifier, group)
    \/ \E identifier \in Ids : remove_individual(identifier)

SpecPopulation == Init /\ [][NextPopulation]_vars

----------------------------------------------------------------------------
(* Claims about the population registry *)

\* occurrences of x in the list l
Occurrences(l, x) == Cardinality({i \in DOMAIN l : l[i] = x})

\* C7: after any sequence of add_individual and remove_individual operations,
\* every individual in the forward mapping appears exactly once in the
\* collection of the group it maps to and in no other group's collection, and
\* every identifier in a group's collection is mapped to that group.
C7_RegistryConsistent ==
    /\ \A x \in Ids :
          has_individual(x) =>
              \A g \in Groups :
                  Occurrences(GroupList(group_to_individuals, g), x) =
                      IF g = DictGet(individual_to_group, x) THEN 1 ELSE 0
    /\ \A g \in Groups :
          \A x \in Range(GroupList(group_to_individuals, g)) :
              has_individual(x) /\ DictGet(individual_to_group, x) = g

\* C8: for any reachable state containing x, after remove_individual(x)
\* returns, has_individual(x) is false and x is in no group's collection.
C8_RemovedEverywhere ==
    [][\A x \in Ids :
          (has_individual(x) /\ remove_individual(x)) =>
              /\ ~has_individual(x)'
              /\ \A g \in Groups : x \notin Range(GroupList(group_to_individuals', g))]_vars


----------------------------------------------------------------------------
(* two_way_dict.py and vcf/model.py *)

\* the values a distance takes: the counts compare returns
ObservationValues == {0, 3}

Observations == UNION {[1..n -> ObservationValues] : n \in 0..MaxObs}

\* the order of Python's < on the group names
GroupOrder == <<"A", "B">>
StrLess(x, y) ==
    (CHOOSE i \in DOMAIN GroupOrder : GroupOrder[i] = x) <
    (CHOOSE i \in DOMAIN GroupOrder : GroupOrder[i] = y)

\* a key kept as it is given
keep_key(key) == <<key[1], key[2]>>

\* normalize_key
normalize_key(key) ==
    IF StrLess(key[1], key[2]) THEN <<key[1], key[2]>> ELSE <<key[2], key[1]>>

\* TwoWayDict.__setitem__
TwoWayDict_setitem(d, key, value) == DictSet(d, normalize_key(key), value)

\* TwoWayDict.__getitem__, for a key that is held
TwoWayDict_getitem(d, key) == DictGet(d, normalize_key(key))

RECURSIVE Sum(_)
Sum(l) == IF l = <<>> THEN 0 ELSE l[1] + Sum(Tail(l))

\* min(values) and max(values) of a non-empty list: one pass that keeps the best
RECURSIVE MinLoop(_, _)
MinLoop(l, best) ==
    IF l = <<>> THEN best ELSE MinLoop(Tail(l), IF l[1] < best THEN l[1] ELSE best)

RECURSIVE MaxLoop(_, _)
MaxLoop(l, best) ==
    IF l = <<>> THEN best ELSE MaxLoop(Tail(l), IF l[1] > best THEN l[1] ELSE best)

PyMin(l) == MinLoop(Tail(l), l[1])
PyMax(l) == MaxLoop(Tail(l), l[1])

RECURSIVE GCD(_, _)
GCD(m, n) == IF n = 0 THEN m ELSE GCD(n, m % n)

\* the rational num/den, den > 0, in lowest terms
Rational(num, den) ==
    LET g == GCD(IF num < 0 THEN -num ELSE num, den)
    IN [num |-> num \div g, den |-> den \div g]

\* a mean that divides by one more than the number of observations
MeanOffByOne(l) == Rational(Sum(l), Len(l) + 1)

\* np.mean(values) of a non-empty list of integers
Mean(l) == Rational(Sum(l), Len(l))

\* np.std(values)**2 = mean(abs(x - mean)**2), with mean = S/n:
\* the sum of (n*x - S)**2 over n**3
Variance(l) ==
    LET n == Len(l)
        S == Sum(l)
    IN Rational(Sum([i \in DOMAIN l |-> (n * l[i] - S) * (n * l[i] - S)]), n * n * n)

\* the largest r in lo..hi with r*r*den <= n, by bisection
RECURSIVE RootBetween(_, _, _, _)
RootBetween(lo, hi, n, den) ==
    IF lo = hi THEN lo
    ELSE LET mid == (lo + hi + 1) \div 2
         IN IF mid * mid * den <= n
            THEN RootBetween(mid, hi, n, den)
            ELSE RootBetween(lo, mid - 1, n, den)

\* np.std(values) in hundredths, rounded down: the root of the variance, which
\* is at most max - min
Stdev(l) ==
    LET v == Variance(l)
    IN RootBetween(0, 100 * (PyMax(l) - PyMin(l)), 10000 * v.num, v.den)

\* a summary that is returned for an empty collection too
compute_stats_lenient(vals) ==
    IF vals = <<>>
    THEN [outcome |-> "ok",
          stats |-> [min |-> 0, max |-> 0, mean |-> Rational(0, 1), stdev |-> 0]]
    ELSE [outcome |-> "ok",
          stats |-> [min |-> PyMin(vals), max |-> PyMax(vals),
                     mean |-> Mean(vals), stdev |-> Stdev(vals)]]

\* Model.compute_stats: min() raises ValueError on an empty collection
compute_stats(vals) ==
    IF vals = <<>>
    THEN [outcome |-> "ValueError"]
    ELSE [outcome |-> "ok",
          stats |-> [min |-> PyMin(vals), max |-> PyMax(vals),
                     mean |-> Mean(vals), stdev |-> Stdev(vals)]]

\* Model.add_within_values
add_within_values(group, vals) ==
    /\ LET r == compute_stats(vals)
       IN /\ model_ret' = [call |-> <<"add_within_values", group>>,
                           observations |-> vals, outcome |-> r.outcome]
          /\ IF r.outcome = "ok"
             THEN within' = DictSet(within, group, r.stats)
             ELSE UNCHANGED within
    /\ UNCHANGED between
    /\ UNCHANGED notModelVars

\* Model.add_between_values
add_between_values(group1, group2, vals) ==
    /\ LET r == compute_stats(vals)
       IN /\ model_ret' = [call |-> <<"add_between_values", group1, group2>>,
                           observations |-> vals, outcome |-> r.outcome]
          /\ IF r.outcome = "ok"
             THEN between' = TwoWayDict_setitem(between, <<group1, group2>>, r.stats)
             ELSE UNCHANGED between
    /\ UNCHANGED within
    /\ UNCHANGED notModelVars

NextModel ==
    \/ \E group \in Groups, vals \in Observations : add_within_values(group, vals)
    \/ \E group1, group2 \in Groups, vals \in Observations :
          group1 # group2 /\ add_between_values(group1, group2, vals)

SpecModel == Init /\ [][NextModel]_vars

----------------------------------------------------------------------------
(* Claims about the statistical summaries *)

\* the summary s is one of the observations vals
Summarizes(s, vals) ==
    /\ s.min \in Range(vals) /\ \A i \in DOMAIN vals : s.min <= vals[i]
    /\ s.max \in Range(vals) /\ \A i \in DOMAIN vals : s.max >= vals[i]
    /\ s.min * s.mean.den <= s.mean.num
    /\ s.mean.num <= s.max * s.mean.den
    /\ s.stdev >= 0

C10_EmptyStoresNothing ==
    [][/\ \A group \in Groups :
             add_within_values(group, <<>>) =>
                 /\ model_ret'.outcome = "ValueError"
                 /\ within' = within /\ between' = between
       /\ \A group1, group2 \in Groups :
             add_between_values(group1, group2, <<>>) =>
                 /\ model_ret'.outcome = "ValueError"
                 /\ within' = within /\ between' = between]_vars

\* a failed call on a model that has no summary for the group of the call
C10_Witness ==
    /\ model_ret # NoCall
    /\ model_ret.outcome = "ValueError"
    /\ model_ret.call[1] = "add_within_values"
    /\ ~DictHas(within, model_ret.call[2])
    /\ between # <<>>


----------------------------------------------------------------------------
(* vcf/predictor.py: the functions *)

ID_COLUMN == 2
INFO_COLUMN == 7
SUPERPOPULATIONS == {"AFR", "AMR", "EAS", "EUR", "SAS"}

\* pop + '_AF'
AF(pop) == CHOOSE k \in {"AFR_AF", "AMR_AF", "EAS_AF", "EUR_AF", "SAS_AF"} :
               \/ pop = "AFR" /\ k = "AFR_AF"
               \/ pop = "AMR" /\ k = "AMR_AF"
               \/ pop = "EAS" /\ k = "EAS_AF"
               \/ pop = "EUR" /\ k = "EUR_AF"
               \/ pop = "SAS" /\ k = "SAS_AF"

(* Numbers that are not integers are exact rationals [num, den], den > 0 *)
RSub(x, y) == Rational(x.num * y.den - y.num * x.den, x.den * y.den)
RAdd(x, y) == Rational(x.num * y.den + y.num * x.den, x.den * y.den)
RAbs(x) == [num |-> IF x.num < 0 THEN -x.num ELSE x.num, den |-> x.den]
RLess(x, y) == x.num * y.den < y.num * x.den
RGeq(x, y) == x.num * y.den >= y.num * x.den

RECURSIVE RSum(_)
RSum(l) == IF l = <<>> THEN Rational(0, 1) ELSE RAdd(l[1], RSum(Tail(l)))

\* the ratio of the alleles equal to "1"
process_variant_ones(variant_field) ==
    LET genotype == Split(variant_field, ":")[1]
        alleles == IF Contains(genotype, "|") THEN Split(genotype, "|")
                   ELSE IF Contains(genotype, "/") THEN Split(genotype, "/")
                   ELSE <<genotype>>
        alternatives == Cardinality({i \in DOMAIN alleles : alleles[i] = <<"1">>})
    IN Rational(alternatives, Len(alleles))

\* Predictor.process_variant: the list alleles
process_variant_alleles(variant_field) ==
    LET genotype == Split(variant_field, ":")[1]
    IN IF Contains(genotype, "|") THEN Split(genotype, "|")
       ELSE IF Contains(genotype, "/") THEN Split(genotype, "/")
       ELSE <<genotype>>

\* Predictor.process_variant: the dosage ratio of a genotype field
Predictor_process_variant(variant_field) ==
    LET genotype == Split(variant_field, ":")[1]
        alleles == IF Contains(genotype, "|") THEN Split(genotype, "|")
                   ELSE IF Contains(genotype, "/") THEN Split(genotype, "/")
                   ELSE <<genotype>>
        alternatives == Cardinality({i \in DOMAIN alleles : alleles[i] # <<"0">>})
    IN Rational(alternatives, Len(alleles))

\* Predictor.process_individuals: population_labels
population_labels_of(i2g, vcf_individuals) ==
    [k \in DOMAIN vcf_individuals |->
        IF DictHas(i2g, vcf_individuals[k]) THEN DictGet(i2g, vcf_individuals[k])
        ELSE "---"]

\* {i: self.make_structure() for i in self.individuals}
RECURSIVE make_structures(_)
make_structures(inds) ==
    IF inds = <<>> THEN <<>>
    ELSE LET rest == make_structures(SubSeq(inds, 1, Len(inds) - 1))
         IN DictSet(rest, inds[Len(inds)], <<>>)

\* Predictor.filter_genotypes, when every index is in range
filter_genotypes(genotypes, d) == [i \in DOMAIN d |-> genotypes[d[i][2] + 1]]

\* zip(a, b) stops at the shorter of the two
ZipLen(a, b) == IF Len(a) < Len(b) THEN Len(a) ELSE Len(b)

\* Predictor.get_frequencies, the part that reads the INFO column.  The INFO
\* field is the list of its ';'-separated entries, an entry the list of its
\* '='-separated parts, a value the list of its ','-separated numbers.
InfoDict(info) ==
    LET with_eq == SelectSeq(info, LAMBDA e : Len(e) >= 2)
        RECURSIVE build(_)
        build(l) == IF l = <<>> THEN <<>>
                    ELSE DictSet(build(SubSeq(l, 1, Len(l) - 1)),
                                 l[Len(l)][1], l[Len(l)][2])
    IN build(with_eq)

\* dict() of a list with an entry that is not a pair raises ValueError
InfoValueError(info) == \E i \in DOMAIN info : Len(info[i]) > 2

\* the loop over SUPERPOPULATIONS, in the order the set iterates, up to its break
RECURSIVE InfoLoop(_, _)
InfoLoop(order, info) ==
    IF order = <<>> \/ ~DictHas(info, AF(order[1])) THEN <<>>
    ELSE <<<<order[1], RSum(DictGet(info, AF(order[1])))>>>> \o InfoLoop(Tail(order), info)

\* the means, were every total the number of columns of the row
RECURSIVE CountsLoopAllColumns(_, _, _, _, _)
CountsLoopAllColumns(plabels, genotypes, k, counts, totals) ==
    IF k > ZipLen(plabels, genotypes)
    THEN [i \in DOMAIN counts |->
             <<counts[i][1],
               Rational(counts[i][2].num,
                        counts[i][2].den * ZipLen(plabels, genotypes))>>]
    ELSE IF plabels[k] = "---"
    THEN CountsLoopAllColumns(plabels, genotypes, k + 1, counts, totals)
    ELSE IF DictHas(counts, plabels[k])
    THEN CountsLoopAllColumns(plabels, genotypes, k + 1,
                              DictSet(counts, plabels[k],
                                      RAdd(DictGet(counts, plabels[k]), genotypes[k])),
                              totals)
    ELSE CountsLoopAllColumns(plabels, genotypes, k + 1,
                              DictSet(counts, plabels[k], genotypes[k]), totals)

\* Predictor.get_frequencies, the part that computes the means: the dict
\* result, in the order in which counts met the groups
RECURSIVE CountsLoop(_, _, _, _, _)
CountsLoop(plabels, genotypes, k, counts, totals) ==
    IF k > ZipLen(plabels, genotypes)
    THEN [i \in DOMAIN counts |->
             <<counts[i][1],
               Rational(counts[i][2].num, counts[i][2].den * totals[i][2])>>]
    ELSE IF plabels[k] = "---"
    THEN CountsLoop(plabels, genotypes, k + 1, counts, totals)
    ELSE IF DictHas(counts, plabels[k])
    THEN CountsLoop(plabels, genotypes, k + 1,
                    DictSet(counts, plabels[k],
                            RAdd(DictGet(counts, plabels[k]), genotypes[k])),
                    DictSet(totals, plabels[k], DictGet(totals, plabels[k]) + 1))
    ELSE CountsLoop(plabels, genotypes, k + 1,
                    DictSet(counts, plabels[k], genotypes[k]),
                    DictSet(totals, plabels[k], 1))

ComputedFrequencies(plabels, genotypes) == CountsLoop(plabels, genotypes, 1, <<>>, <<>>)

\* get_frequencies, were it to leave from_info as it is when it falls back
get_frequencies_keep_mode(fixed, genotypes, frinfo, plabels, order) ==
    IF frinfo /\ InfoValueError(fixed[INFO_COLUMN + 1])
    THEN [outcome |-> "ValueError", from_info |-> frinfo, freqs |-> <<>>]
    ELSE LET result == InfoLoop(order, InfoDict(fixed[INFO_COLUMN + 1]))
         IN IF frinfo /\ Len(result) = Cardinality(SUPERPOPULATIONS)
            THEN [outcome |-> "ok", from_info |-> frinfo, freqs |-> result]
            ELSE [outcome |-> "ok", from_info |-> frinfo,
                  freqs |-> ComputedFrequencies(plabels, genotypes)]

\* Predictor.get_frequencies: the table, the new from_info and the exception
get_frequencies(fixed, genotypes, frinfo, plabels, order) ==
    IF frinfo /\ InfoValueError(fixed[INFO_COLUMN + 1])
    THEN [outcome |-> "ValueError", from_info |-> frinfo, freqs |-> <<>>]
    ELSE LET result == InfoLoop(order, InfoDict(fixed[INFO_COLUMN + 1]))
         IN IF frinfo /\ Len(result) = Cardinality(SUPERPOPULATIONS)
            THEN [outcome |-> "ok", from_info |-> frinfo, freqs |-> result]
            ELSE [outcome |-> "ok", from_info |-> FALSE,
                  freqs |-> ComputedFrequencies(plabels, genotypes)]

\* sorted(d, key=lambda x: d[x]): a stable sort of the keys by their values
RECURSIVE SortedKeys(_)
SortedKeys(d) ==
    IF d = <<>> THEN <<>>
    ELSE LET i == CHOOSE k \in DOMAIN d :
                      /\ \A j \in DOMAIN d : ~RLess(d[j][2], d[k][2])
                      /\ \A j \in 1..(k-1) : RLess(d[k][2], d[j][2])
         IN <<d[i][1]>> \o SortedKeys(SubSeq(d, 1, i-1) \o SubSeq(d, i+1, Len(d)))

\* a strategy that votes for the two nearest groups
Joao_two_nearest(freqs, genotype, thr) ==
    LET d == [i \in DOMAIN freqs |-> <<freqs[i][1], RAbs(RSub(genotype, freqs[i][2]))>>]
        ordered == SortedKeys(d)
    IN IF Len(ordered) < 2
       THEN [outcome |-> "IndexError", votes |-> <<>>]
       ELSE IF RGeq(RSub(DictGet(d, ordered[2]), DictGet(d, ordered[1])), thr)
            THEN [outcome |-> "ok", votes |-> <<ordered[1], ordered[2]>>]
            ELSE [outcome |-> "ok", votes |-> <<>>]

\* a strategy that asks for a gap greater than the threshold
Joao_strict_margin(freqs, genotype, thr) ==
    LET d == [i \in DOMAIN freqs |-> <<freqs[i][1], RAbs(RSub(genotype, freqs[i][2]))>>]
        ordered == SortedKeys(d)
    IN IF Len(ordered) < 2
       THEN [outcome |-> "IndexError", votes |-> <<>>]
       ELSE IF RLess(thr, RSub(DictGet(d, ordered[2]), DictGet(d, ordered[1])))
            THEN [outcome |-> "ok", votes |-> <<ordered[1]>>]
            ELSE [outcome |-> "ok", votes |-> <<>>]

\* PredictorJoao.process_individual_genotype: the votes, or IndexError
Joao_process_individual_genotype(freqs, genotype, thr) ==
    LET d == [i \in DOMAIN freqs |-> <<freqs[i][1], RAbs(RSub(genotype, freqs[i][2]))>>]
        ordered == SortedKeys(d)
    IN IF Len(ordered) < 2
       THEN [outcome |-> "IndexError", votes |-> <<>>]
       ELSE IF RGeq(RSub(DictGet(d, ordered[2]), DictGet(d, ordered[1])), thr)
            THEN [outcome |-> "ok", votes |-> <<ordered[1]>>]
            ELSE [outcome |-> "ok", votes |-> <<>>]

\* PredictorMariana.process_individual_genotype: the votes
\* the vote of one pair of groups: the list of no vote or one
MarianaVote(freqs, genotype, thr, p1, p2) ==
    LET d == RSub(RAbs(RSub(genotype, DictGet(freqs, p1))),
                  RAbs(RSub(genotype, DictGet(freqs, p2))))
    IN IF RGeq(RAbs(d), thr) THEN (IF d.num < 0 THEN <<p1>> ELSE <<p2>>) ELSE <<>>

RECURSIVE MarianaLoop(_, _, _, _)
MarianaLoop(freqs, genotype, thr, ps) ==
    IF ps = <<>> THEN <<>>
    ELSE MarianaVote(freqs, genotype, thr, ps[1][1], ps[1][2])
         \o MarianaLoop(freqs, genotype, thr, Tail(ps))

Mariana_process_individual_genotype(freqs, genotype, thr) ==
    [outcome |-> "ok",
     votes |-> MarianaLoop(freqs, genotype, thr, Combinations2(DictKeys(freqs)))]

process_individual_genotype(strat, freqs, genotype, thr) ==
    IF strat = "PredictorJoao"
    THEN Joao_process_individual_genotype(freqs, genotype, thr)
    ELSE Mariana_process_individual_genotype(freqs, genotype, thr)


\* Counter(l): the count of each distinct vote, in the order l first held them
RECURSIVE CounterOf(_, _)
CounterOf(l, c) ==
    IF l = <<>> THEN c
    ELSE CounterOf(Tail(l),
                   DictSet(c, l[1], IF DictHas(c, l[1]) THEN DictGet(c, l[1]) + 1 ELSE 1))

\* a stable sort by decreasing count
RECURSIVE SortedByCount(_)
SortedByCount(c) ==
    IF c = <<>> THEN <<>>
    ELSE LET i == CHOOSE k \in DOMAIN c :
                      /\ \A j \in DOMAIN c : c[j][2] <= c[k][2]
                      /\ \A j \in 1..(k-1) : c[j][2] < c[k][2]
         IN <<c[i]>> \o SortedByCount(SubSeq(c, 1, i-1) \o SubSeq(c, i+1, Len(c)))

\* Counter(l).most_common(): the distinct votes by decreasing count, votes of
\* equal count in the order in which l first held them
most_common(l) == SortedByCount(CounterOf(l, <<>>))

\* the body of the loop of terminate: the label of one list of votes, or IndexError
label_of(l, thr) ==
    LET ordered == most_common(l)
        relative == RLess(Rational(0, 1), thr) /\ RLess(thr, Rational(1, 1))
    IN IF Len(ordered) < 2
       THEN [outcome |-> "IndexError", label |-> "---"]
       ELSE LET gap == ordered[1][2] - ordered[2][2]
                diff == IF relative THEN Rational(gap, ordered[1][2]) ELSE Rational(gap, 1)
            IN [outcome |-> "ok",
                label |-> IF RGeq(diff, thr) THEN ordered[1][1] ELSE "---"]

\* PredictorJoao.terminate and PredictorMariana.terminate: the labels assigned
\* until the loop ends or raises
RECURSIVE Predictor_terminate(_, _, _)
Predictor_terminate(structs, lbls, thr) ==
    IF structs = <<>> THEN [outcome |-> "ok", labels |-> lbls]
    ELSE LET r == label_of(structs[1][2], thr)
         IN IF r.outcome # "ok" THEN [outcome |-> r.outcome, labels |-> lbls]
            ELSE Predictor_terminate(Tail(structs),
                                     DictSet(lbls, structs[1][1], r.label), thr)

\* Predictor.process_individuals: the exception it raises, or NoError
Predictor_MissingIndividual(wanted, d, vcf_individuals) ==
    IF /\ Len(wanted) > Len(d)
       /\ \E k \in DOMAIN wanted : wanted[k] \notin Range(vcf_individuals)
    THEN [type |-> "Exception", individual |-> FirstAbsent(wanted, vcf_individuals)]
    ELSE NoError

\* the loop with a cache of one slot, read whatever the dosage ratio
RECURSIVE VoteLoopOneSlot(_, _, _, _, _, _, _, _)
VoteLoopOneSlot(cls, thr, freqs, inds, mine, k, structs, cache) ==
    IF k > ZipLen(inds, mine) THEN structs
    ELSE IF cache # <<>>
    THEN VoteLoopOneSlot(cls, thr, freqs, inds, mine, k + 1,
                         DictSet(structs, inds[k],
                                 DictGet(structs, inds[k]) \o cache[1][2]),
                         cache)
    ELSE VoteLoopOneSlot(cls, thr, freqs, inds, mine, k + 1,
                         DictSet(structs, inds[k],
                                 DictGet(structs, inds[k])
                                     \o process_individual_genotype(cls, freqs, mine[k], thr).votes),
                         DictSet(cache, mine[k],
                                 process_individual_genotype(cls, freqs, mine[k], thr).votes))

\* Predictor.process_data, the loop over zip(self.individuals, genotypes) with its
\* cache, for a strategy that does not raise: the structures it leaves
RECURSIVE VoteLoop(_, _, _, _, _, _, _, _)
VoteLoop(cls, thr, freqs, inds, mine, k, structs, cache) ==
    IF k > ZipLen(inds, mine) THEN structs
    ELSE IF DictHas(cache, mine[k])
    THEN VoteLoop(cls, thr, freqs, inds, mine, k + 1,
                  DictSet(structs, inds[k],
                          DictGet(structs, inds[k]) \o DictGet(cache, mine[k])),
                  cache)
    ELSE VoteLoop(cls, thr, freqs, inds, mine, k + 1,
                  DictSet(structs, inds[k],
                          DictGet(structs, inds[k])
                              \o process_individual_genotype(cls, freqs, mine[k], thr).votes),
                  DictSet(cache, mine[k],
                          process_individual_genotype(cls, freqs, mine[k], thr).votes))

\* Predictor.process_data from get_frequencies on: the exception, from_info and
\* the structures it leaves.  headed tells whether process_individuals has run,
\* as population_labels and structures are attributes only from then on.
Predictor_process_data(cls, thr, fixed, df, inds, d, frinfo, plabels, structs, order, headed) ==
    LET genotypes == [k \in DOMAIN df |-> Predictor_process_variant(df[k])]
        uses_info == frinfo /\ Len(fixed) > INFO_COLUMN
                     /\ ~InfoValueError(fixed[INFO_COLUMN + 1])
                     /\ Len(InfoLoop(order, InfoDict(fixed[INFO_COLUMN + 1])))
                            = Cardinality(SUPERPOPULATIONS)
    IN IF frinfo /\ Len(fixed) <= INFO_COLUMN
       THEN [err |-> [type |-> "IndexError"], from_info |-> frinfo, structures |-> structs]
       ELSE IF frinfo /\ InfoValueError(fixed[INFO_COLUMN + 1])
       THEN [err |-> [type |-> "ValueError"], from_info |-> frinfo, structures |-> structs]
       ELSE IF ~uses_info /\ ~headed
       THEN [err |-> [type |-> "AttributeError"], from_info |-> FALSE,
             structures |-> structs]
       ELSE
       LET f == get_frequencies(fixed, genotypes, frinfo, plabels, order)
       IN IF \E i \in DOMAIN d : d[i][2] >= Len(genotypes)
          THEN [err |-> [type |-> "IndexError"], from_info |-> f.from_info,
                structures |-> structs]
          ELSE
          LET mine == filter_genotypes(genotypes, d)
              first == process_individual_genotype(cls, f.freqs, mine[1], thr)
          IN IF ZipLen(inds, mine) > 0 /\ first.outcome # "ok"
             THEN [err |-> [type |-> first.outcome], from_info |-> f.from_info,
                   structures |-> structs]
             ELSE [err |-> NoError, from_info |-> f.from_info,
                   structures |-> VoteLoop(cls, thr, f.freqs, inds, mine, 1, structs, <<>>)]

----------------------------------------------------------------------------
(* A predictor and one run of it *)

Predictors == {"PredictorJoao", "PredictorMariana"}

\* the thresholds <<t1, t2>> a predictor is built with
Thresholds == { <<Rational(0, 1), Rational(0, 1)>>, <<Rational(1, 2), Rational(1, 2)>> }

\* the Population a sequence of add_individual calls builds
RECURSIVE PopulationOf(_)
PopulationOf(calls) ==
    IF calls = <<>> THEN [individual_to_group |-> <<>>, group_to_individuals |-> <<>>]
    ELSE LET before == PopulationOf(SubSeq(calls, 1, Len(calls) - 1))
             identifier == calls[Len(calls)][1]
             group == calls[Len(calls)][2]
         IN [individual_to_group |-> DictSet(before.individual_to_group, identifier, group),
             group_to_individuals |->
                 DictSet(before.group_to_individuals, group,
                         Append(GroupList(before.group_to_individuals, group), identifier))]

\* registries of known individuals: two groups of one; a group of two and a
\* group of one
Registries ==
    { PopulationOf(<<<<"a", "A">>, <<"b", "B">>>>),
      PopulationOf(<<<<"a", "A">>, <<"b", "A">>, <<"c", "B">>>>) }

\* a registry whose groups are the five superpopulations
SuperRegistry ==
    PopulationOf(<<<<"a", "AFR">>, <<"b", "AMR">>, <<"k", "EAS">>, <<"l", "EUR">>,
                   <<"m", "SAS">>>>)

\* orders in which an interpreter iterates the set SUPERPOPULATIONS: the order
\* follows the hashes of the strings, which change from one interpreter to the next
Iterations ==
    { <<"AFR", "AMR", "EUR", "SAS", "EAS">>, <<"EUR", "SAS", "AFR", "EAS", "AMR">>,
      <<"AFR", "AMR", "EAS", "SAS", "EUR">> }

\* the lists of individuals to classify
Wanted == { <<"c">>, <<"d", "c">> }

\* the variant filters
Filters == { {"rs1"}, {"rs1", "rs2"} }

PredictorHeaderLines ==
    { HeaderNames \o <<"FORMAT", "a", "b", "c", "d">>,
      HeaderNames \o <<"d", "c", "b", "a">>,
      HeaderNames \o <<"FORMAT", "a", "b">>,
      HeaderNames \o <<"FORMAT", "c", "d">> }

\* INFO fields: one without frequencies and one with the five of them
NoInfo == << <<".">> >>
InfoFields ==
    { NoInfo,
      << <<"AFR_AF", <<Rational(1, 10)>>>>, <<"AMR_AF", <<Rational(9, 10)>>>>,
         <<"EAS_AF", <<Rational(1, 2)>>>>, <<"EUR_AF", <<Rational(1, 2)>>>>,
         <<"SAS_AF", <<Rational(1, 4), Rational(1, 4)>>>>, <<"DB">> >> }

VariantIds == {"rs1", "rs2"}

PredictorGenotypeFields == { <<"0", "|", "0">>, <<"1", "/", "1", ":", "7">> }

PredictorDataLines(n, hgf, infos) ==
    { <<"1", "100", id, "A", "G", ".", "PASS", info>>
          \o (IF hgf = "True" THEN <<"GT">> ELSE <<>>) \o gts :
      id \in VariantIds, info \in infos, gts \in [1..n -> PredictorGenotypeFields] }

\* a predictor built with thresholds t1 and t2, and the registry it will be given
InitClassifier ==
    /\ handler_class \in Predictors
    /\ \E t \in Thresholds : t1 = t[1] /\ t2 = t[2]
    /\ \E r \in Registries :
          /\ individual_to_group = r.individual_to_group
          /\ group_to_individuals = r.group_to_individuals
    /\ population_ret = NoCall
    \* read only when the groups are the five superpopulations
    /\ set_iteration = <<"AFR", "AMR", "EUR", "SAS", "EAS">>
    /\ InitRun /\ InitModel /\ InitPredictorFields /\ InitCalls

\* a predictor and a registry of the five superpopulations
InitInfoClassifier ==
    /\ handler_class \in Predictors
    /\ \E t \in Thresholds : t1 = t[1] /\ t2 = t[2]
    /\ individual_to_group = SuperRegistry.individual_to_group
    /\ group_to_individuals = SuperRegistry.group_to_individuals
    /\ population_ret = NoCall
    /\ set_iteration \in Iterations
    /\ InitRun /\ InitModel /\ InitPredictorFields /\ InitCalls

Late == IF terminate_early THEN n_late + 1 ELSE n_late

\* Predictor.set_populations
set_populations(inds) ==
    /\ handler_class \in Predictors
    /\ phase = "new"
    /\ individuals' = inds
    /\ from_info' = (Range(DictKeys(group_to_individuals)) = SUPERPOPULATIONS)
    /\ phase' = "configured"
    /\ UNCHANGED <<has_genotype_field, err, hdr, n_headers, n_meta, n_data, n_pre,
                   n_terminate, individual_indeces>>
    /\ UNCHANGED <<handler_class, t1, t2, polymorphisms, polymorphism_count,
                   population_labels, structures, labels, terminate_early, set_iteration,
                   n_late, seen_ids>>
    /\ UNCHANGED notPredictorVars

\* Predictor.set_polymorphisms
set_polymorphisms(ids) ==
    /\ handler_class \in Predictors
    /\ phase = "configured"
    /\ polymorphisms.is_none
    /\ polymorphisms' = [is_none |-> FALSE, ids |-> ids]
    /\ UNCHANGED <<handlerVars, individual_indeces>>
    /\ UNCHANGED <<handler_class, t1, t2, individuals, polymorphism_count,
                   population_labels, from_info, structures, labels, terminate_early,
                   set_iteration, n_late, seen_ids>>
    /\ UNCHANGED notPredictorVars

\* Handler.run up to the loop: prepare()
PredictorRunPrepare ==
    /\ handler_class \in Predictors
    /\ phase = "configured"
    /\ phase' = "running"
    /\ UNCHANGED <<has_genotype_field, err, hdr, n_headers, n_meta, n_data, n_pre,
                   n_terminate, individual_indeces>>
    /\ UNCHANGED predictorVars
    /\ UNCHANGED notPredictorVars

\* Handler.run on a line that starts with "##": Predictor.process_meta
PredictorRunMeta(fields) ==
    /\ handler_class \in Predictors
    /\ phase = "running"
    /\ n_lines < MaxLines
    /\ IsMetaLine(fields)
    /\ n_meta' = n_meta + 1
    /\ n_late' = Late
    /\ UNCHANGED <<phase, has_genotype_field, err, hdr, n_headers, n_data, n_pre,
                   n_terminate, individual_indeces>>
    /\ UNCHANGED <<handler_class, t1, t2, individuals, polymorphisms, polymorphism_count,
                   population_labels, from_info, structures, labels, terminate_early,
                   set_iteration, seen_ids>>
    /\ UNCHANGED notPredictorVars

\* Handler.run on a line that starts with "#": Predictor.process_individuals
PredictorRunHeader(fields) ==
    /\ handler_class \in Predictors
    /\ phase = "running"
    /\ n_lines < MaxLines
    /\ IsHeaderLine(fields)
    /\ LET vcf_individuals == HeaderIndividuals(fields)
           d == IndexLoop(vcf_individuals, individuals, individual_indeces, 1)
           e == Predictor_MissingIndividual(individuals, d, vcf_individuals)
       IN /\ has_genotype_field' = HeaderHasGenotype(fields)
          /\ population_labels' = population_labels_of(individual_to_group, vcf_individuals)
          /\ structures' = make_structures(individuals)
          /\ individual_indeces' = d
          /\ hdr' = vcf_individuals
          /\ n_headers' = n_headers + 1
          /\ err' = e
          /\ phase' = IF e # NoError THEN "failed" ELSE phase
    /\ n_late' = Late
    /\ UNCHANGED <<n_meta, n_data, n_pre, n_terminate>>
    /\ UNCHANGED <<handler_class, t1, t2, individuals, polymorphisms, polymorphism_count,
                   from_info, labels, terminate_early, set_iteration, seen_ids>>
    /\ UNCHANGED notPredictorVars

\* the identifiers of the rows that process_data has counted once it returns from
\* the row fields (a row is counted only when a filter is set)
SeenAfter(fields) ==
    IF \/ polymorphisms.is_none
       \/ FormatIndexError(fields, has_genotype_field)
       \/ Len(fixed_fields(fields)) <= ID_COLUMN
       \/ fields[ID_COLUMN + 1] \notin polymorphisms.ids
    THEN seen_ids
    ELSE seen_ids \cup {fields[ID_COLUMN + 1]}

\* process_data, were it to count a row before looking its identifier up in the filter
PredictorRunDataCountFirst(fields) ==
    /\ handler_class \in Predictors
    /\ phase = "running"
    /\ n_lines < MaxLines
    /\ ~IsMetaLine(fields) /\ ~IsHeaderLine(fields)
    /\ n_late' = Late
    /\ seen_ids' = SeenAfter(fields)
    /\ LET fixed == fixed_fields(fields)
           df == data_fields(fields, has_genotype_field)
       IN IF FormatIndexError(fields, has_genotype_field)
          THEN /\ err' = [type |-> "IndexError"]
               /\ phase' = "failed"
               /\ UNCHANGED <<n_data, n_pre, polymorphism_count, from_info, structures,
                              terminate_early>>
          ELSE
          /\ n_data' = n_data + 1
          /\ n_pre' = IF n_headers = 0 THEN n_pre + 1 ELSE n_pre
          /\ IF ~polymorphisms.is_none /\ Len(fixed) <= ID_COLUMN
             THEN /\ err' = [type |-> "IndexError"]
                  /\ phase' = "failed"
                  /\ UNCHANGED <<polymorphism_count, from_info, structures,
                                 terminate_early>>
             ELSE IF ~polymorphisms.is_none /\ fixed[ID_COLUMN + 1] \notin polymorphisms.ids
             THEN /\ polymorphism_count' = polymorphism_count + 1
                  /\ UNCHANGED <<err, phase, from_info, structures, terminate_early>>
             ELSE
             LET count == IF polymorphisms.is_none THEN polymorphism_count
                          ELSE polymorphism_count + 1
                 r == Predictor_process_data(handler_class, t1, fixed, df, individuals,
                                             individual_indeces, from_info,
                                             population_labels, structures,
                                             set_iteration, n_headers > 0)
             IN /\ polymorphism_count' = count
                /\ from_info' = r.from_info
                /\ structures' = r.structures
                /\ err' = r.err
                /\ IF r.err # NoError
                   THEN /\ phase' = "failed"
                        /\ UNCHANGED terminate_early
                   ELSE /\ phase' = phase
                        /\ terminate_early' =
                               IF polymorphisms.ids # {}
                                  /\ count = Cardinality(polymorphisms.ids)
                               THEN TRUE ELSE terminate_early
    /\ UNCHANGED <<has_genotype_field, hdr, n_headers, n_meta, n_terminate,
                   individual_indeces>>
    /\ UNCHANGED <<handler_class, t1, t2, individuals, polymorphisms, population_labels,
                   labels, set_iteration>>
    /\ UNCHANGED notPredictorVars

\* Handler.run on any other line: Predictor.process_data
PredictorRunData(fields) ==
    /\ handler_class \in Predictors
    /\ phase = "running"
    /\ n_lines < MaxLines
    /\ ~IsMetaLine(fields) /\ ~IsHeaderLine(fields)
    /\ n_late' = Late
    /\ seen_ids' = SeenAfter(fields)
    /\ LET fixed == fixed_fields(fields)
           df == data_fields(fields, has_genotype_field)
       IN IF FormatIndexError(fields, has_genotype_field)
          THEN /\ err' = [type |-> "IndexError"]
               /\ phase' = "failed"
               /\ UNCHANGED <<n_data, n_pre, polymorphism_count, from_info, structures,
                              terminate_early>>
          ELSE
          /\ n_data' = n_data + 1
          /\ n_pre' = IF n_headers = 0 THEN n_pre + 1 ELSE n_pre
          /\ IF ~polymorphisms.is_none /\ Len(fixed) <= ID_COLUMN
             THEN /\ err' = [type |-> "IndexError"]
                  /\ phase' = "failed"
                  /\ UNCHANGED <<polymorphism_count, from_info, structures,
                                 terminate_early>>
             ELSE IF ~polymorphisms.is_none /\ fixed[ID_COLUMN + 1] \notin polymorphisms.ids
             THEN UNCHANGED <<err, phase, polymorphism_count, from_info, structures,
                              terminate_early>>
             ELSE
             LET count == IF polymorphisms.is_none THEN polymorphism_count
                          ELSE polymorphism_count + 1
                 r == Predictor_process_data(handler_class, t1, fixed, df, individuals,
                                             individual_indeces, from_info,
                                             population_labels, structures,
                                             set_iteration, n_headers > 0)
             IN /\ polymorphism_count' = count
                /\ from_info' = r.from_info
                /\ structures' = r.structures
                /\ err' = r.err
                /\ IF r.err # NoError
                   THEN /\ phase' = "failed"
                        /\ UNCHANGED terminate_early
                   ELSE /\ phase' = phase
                        /\ terminate_early' =
                               IF polymorphisms.ids # {}
                                  /\ count = Cardinality(polymorphisms.ids)
                               THEN TRUE ELSE terminate_early
    /\ UNCHANGED <<has_genotype_field, hdr, n_headers, n_meta, n_terminate,
                   individual_indeces>>
    /\ UNCHANGED <<handler_class, t1, t2, individuals, polymorphisms, population_labels,
                   labels, set_iteration>>
    /\ UNCHANGED notPredictorVars

\* Handler.run at the end of the stream: terminate.  structures is an
\* attribute only once process_individuals has run.
PredictorRunEnd ==
    /\ handler_class \in Predictors
    /\ phase = "running"
    /\ n_terminate' = n_terminate + 1
    /\ IF n_headers = 0
       THEN /\ err' = [type |-> "AttributeError"]
            /\ phase' = "failed"
            /\ UNCHANGED labels
       ELSE LET r == Predictor_terminate(structures, labels, t2)
            IN /\ labels' = r.labels
               /\ err' = IF r.outcome = "ok" THEN NoError ELSE [type |-> r.outcome]
               /\ phase' = IF r.outcome = "ok" THEN "done" ELSE "failed"
    /\ UNCHANGED <<has_genotype_field, hdr, n_headers, n_meta, n_data, n_pre,
                   individual_indeces>>
    /\ UNCHANGED <<handler_class, t1, t2, individuals, polymorphisms, polymorphism_count,
                   population_labels, from_info, structures, terminate_early,
                   set_iteration, n_late, seen_ids>>
    /\ UNCHANGED notPredictorVars

\* A stream as the input format defines it: one header line at most
NextPredictor ==
    \/ \E inds \in Wanted : set_populations(inds)
    \/ \E ids \in Filters : set_polymorphisms(ids)
    \/ PredictorRunPrepare
    \/ PredictorRunMeta(<<MetaField>>)
    \/ \E fields \in PredictorHeaderLines : n_headers = 0 /\ PredictorRunHeader(fields)
    \/ \E fields \in PredictorDataLines(RowWidth, has_genotype_field, {NoInfo}) :
           PredictorRunData(fields)
    \/ PredictorRunEnd

SpecPredictor == InitClassifier /\ [][NextPredictor]_vars

\* The same, the rows with and without frequencies in their INFO field, under
\* header lines of two columns
InfoHeaderLines ==
    { HeaderNames \o <<"FORMAT", "c", "d">>, HeaderNames \o <<"FORMAT", "a", "b">> }

InfoRowWidth == IF n_headers = 0 THEN 1 ELSE Len(hdr)

NextInfoPredictor ==
    \/ \E inds \in Wanted : set_populations(inds)
    \/ \E ids \in Filters : set_polymorphisms(ids)
    \/ PredictorRunPrepare
    \/ PredictorRunMeta(<<MetaField>>)
    \/ \E fields \in InfoHeaderLines : n_headers = 0 /\ PredictorRunHeader(fields)
    \/ \E fields \in PredictorDataLines(InfoRowWidth, has_genotype_field, InfoFields) :
           PredictorRunData(fields)
    \/ PredictorRunEnd

SpecInfoPredictor == InitInfoClassifier /\ [][NextInfoPredictor]_vars

----------------------------------------------------------------------------
(* Handler.run with either consumer *)

InitHandler == Init \/ InitClassifier

NextHandler ==
    \/ \E inp \in InjSeqs(Ids) : set_individuals(inp)
    \/ ComparerRunPrepare
    \/ ComparerRunMeta(<<MetaField>>)
    \/ \E fields \in HeaderLines : n_headers = 0 /\ ComparerRunHeader(fields)
    \/ \E fields \in ComparerDataLines(RowWidth, has_genotype_field) : ComparerRunData(fields)
    \/ ComparerRunEnd
    \/ \E inds \in Wanted : set_populations(inds)
    \/ \E ids \in Filters : set_polymorphisms(ids)
    \/ PredictorRunPrepare
    \/ PredictorRunMeta(<<MetaField>>)
    \/ \E fields \in PredictorHeaderLines : n_headers = 0 /\ PredictorRunHeader(fields)
    \/ \E fields \in PredictorDataLines(RowWidth, has_genotype_field, {NoInfo}) :
           PredictorRunData(fields)
    \/ PredictorRunEnd

SpecHandler == InitHandler /\ [][NextHandler]_vars

----------------------------------------------------------------------------
(* Claims about the run of a consumer *)

\* the individuals the consumer asked for, in the order it asked
Requested == IF handler_class = "DefaultComparer" THEN input_individuals ELSE individuals

\* C4: if an individual requested by the consumer (a target of a Comparer, an
\* individual a Predictor is to classify) is not among the individuals of the
\* header line, the run fails when that line is handled, the error names the
\* first requested individual, in requested order, that is absent, and no data
\* row is processed from then on.
C4_MissingIndividualFails ==
    (n_headers = 1 /\ \E k \in DOMAIN Requested : Requested[k] \notin Range(hdr)) =>
        /\ phase = "failed"
        /\ \E k \in DOMAIN Requested :
              /\ Requested[k] \notin Range(hdr)
              /\ \A j \in 1..(k-1) : Requested[j] \in Range(hdr)
              /\ err = [type |-> "Exception", individual |-> Requested[k]]
        /\ n_data = n_pre
        /\ n_terminate = 0

\* a predictor asked for d and c, a metadata line, then a header with neither
C4_Witness ==
    /\ handler_class \in Predictors
    /\ individuals = <<"d", "c">>
    /\ n_meta = 1 /\ n_headers = 1 /\ n_data = 0
    /\ hdr = <<"a", "b">>
    /\ phase = "failed"
    /\ err = [type |-> "Exception", individual |-> "d"]

\* C5: once process_data has set the early-termination flag, Handler.run
\* dispatches no further line of the stream.
C5_EarlyTerminationStopsDispatch == terminate_early => n_late = 0

\* C6: when run goes through a stream without a callback raising, terminate is
\* invoked exactly once, from the running loop and after the callback of the
\* last line; no line callback is invoked after terminate.
C6_TerminateOnceAtEnd ==
    [][/\ n_terminate' <= 1
       /\ (n_terminate' # n_terminate => phase = "running" /\ n_lines' = n_lines)
       /\ (n_terminate = 1 => n_lines' = n_lines)
       /\ (phase' = "done" => n_terminate' = 1)]_vars

\* a stream of a header line and two data rows, consumed to its end
C6_Witness ==
    /\ phase = "done"
    /\ n_terminate = 1
    /\ n_headers = 1 /\ n_data = 2 /\ n_pre = 0

----------------------------------------------------------------------------
(* The strategies, called on their own *)

GroupNames == <<"A", "B", "C", "D">>
StrategyGroups == {GroupNames[i] : i \in 1..MaxGroups}

FrequencyValues == {Rational(0, 1), Rational(1, 10), Rational(9, 10)}
Ratios == {Rational(0, 1), Rational(1, 20), Rational(1, 2), Rational(1, 1)}
VoteThresholds == {Rational(0, 1), Rational(3, 10), Rational(9, 10)}

\* the frequency tables: dicts group -> frequency, in any insertion order
FrequencyTables ==
    UNION {{[i \in DOMAIN g |-> <<g[i], f[i]>>] : f \in [DOMAIN g -> FrequencyValues]} :
           g \in InjSeqs(StrategyGroups)}

\* self.process_individual_genotype(freqs, individual, genotype, fixed_fields) of
\* a predictor of class cls built with t1 = thr
apply_strategy(cls, freqs, genotype, thr) ==
    /\ LET r == process_individual_genotype(cls, freqs, genotype, thr)
       IN strategy_ret' = [call |-> <<cls>>, freqs |-> freqs, genotype |-> genotype,
                           thr |-> thr, outcome |-> r.outcome, votes |-> r.votes]
    /\ UNCHANGED <<handlerVars, comparerVars, populationVars, modelVars, predictorVars,
                   randomVars, dispatchVars>>

NextStrategy ==
    /\ strategy_ret = NoCall
    /\ \E cls \in Predictors, freqs \in FrequencyTables, genotype \in Ratios,
          thr \in VoteThresholds : apply_strategy(cls, freqs, genotype, thr)

SpecStrategy == Init /\ [][NextStrategy]_vars

\* the last call was one of the strategy of class cls
Called(cls) == strategy_ret # NoCall /\ strategy_ret.call = <<cls>>

\* C11: for every ratio, frequency table and threshold t1 the nearest-population
\* strategy returns at most one vote, which is all that one data row appends
\* to the accumulator of an individual.
C11_AtMostOneVote ==
    Called("PredictorJoao") => Len(strategy_ret.votes) <= 1

\* a table of three groups for which the strategy casts its vote
C11_Witness ==
    /\ Called("PredictorJoao")
    /\ Len(strategy_ret.freqs) = 3
    /\ strategy_ret.outcome = "ok"
    /\ Len(strategy_ret.votes) = 1

\* the distance of the ratio of the last call to the frequency of the i-th group
Distance(i) == RAbs(RSub(strategy_ret.genotype, strategy_ret.freqs[i][2]))

\* no group of the table is nearer than the i-th
Nearest(i) == \A j \in DOMAIN strategy_ret.freqs : ~RLess(Distance(j), Distance(i))

\* the second-smallest distance exceeds the smallest by the threshold or more
MarginMet ==
    \E i, j \in DOMAIN strategy_ret.freqs :
        /\ i # j
        /\ Nearest(i)
        /\ \A k \in DOMAIN strategy_ret.freqs \ {i} : ~RLess(Distance(k), Distance(j))
        /\ RGeq(RSub(Distance(j), Distance(i)), strategy_ret.thr)

\* C12: on a table of two groups or more the nearest-population strategy casts
\* exactly one vote, for a group at the smallest distance, when the
\* second-smallest distance minus the smallest is >= t1, and no vote otherwise.
C12_NearestMarginVote ==
    (Called("PredictorJoao") /\ Len(strategy_ret.freqs) >= 2) =>
        /\ strategy_ret.outcome = "ok"
        /\ IF MarginMet
           THEN /\ Len(strategy_ret.votes) = 1
                /\ \E i \in DOMAIN strategy_ret.freqs :
                      Nearest(i) /\ strategy_ret.votes[1] = strategy_ret.freqs[i][1]
           ELSE strategy_ret.votes = <<>>

\* groups A = 0.1 and B = 0.9, ratio 0.05, t1 = 0.3: one vote, for A
C12_Witness ==
    /\ Called("PredictorJoao")
    /\ strategy_ret.freqs = << <<"A", Rational(1, 10)>>, <<"B", Rational(9, 10)>> >>
    /\ strategy_ret.genotype = Rational(1, 20)
    /\ strategy_ret.thr = Rational(3, 10)
    /\ strategy_ret.votes = <<"A">>

\* the pairs of groups of the table of the last call whose distances differ by
\* the threshold or more, as pairs of positions, in the order of combinations
QualifyingPairs ==
    SelectSeq(Combinations2([i \in DOMAIN strategy_ret.freqs |-> i]),
              LAMBDA p : RGeq(RAbs(RSub(Distance(p[1]), Distance(p[2]))),
                              strategy_ret.thr))

\* C13: the pairwise-margin strategy casts, for every unordered pair of groups
\* of the table, exactly one vote when the absolute difference of the two
\* distances is >= t1 and none otherwise, and every vote names the group of its
\* pair that is closer to the ratio.
C13_PairwiseMarginVote ==
    Called("PredictorMariana") =>
        /\ strategy_ret.outcome = "ok"
        /\ Len(strategy_ret.votes) = Len(QualifyingPairs)
        /\ \A k \in DOMAIN QualifyingPairs :
              LET p1 == QualifyingPairs[k][1]
                  p2 == QualifyingPairs[k][2]
              IN \/ /\ strategy_ret.votes[k] = strategy_ret.freqs[p1][1]
                    /\ RLess(Distance(p1), Distance(p2))
                 \/ /\ strategy_ret.votes[k] = strategy_ret.freqs[p2][1]
                    /\ RLess(Distance(p2), Distance(p1))

\* ---------------------------------------------------------------------------
\* terminate, called on its own: the accumulators and t2 are drawn from small sets

MaxVotes == 3

VoteGroups == {"A", "B", "C"}
VoteLists == UNION {[1..n -> VoteGroups] : n \in 0..MaxVotes}
Classified == { <<"c">>, <<"c", "d">> }
Accumulators ==
    UNION {{[i \in DOMAIN inds |-> <<inds[i], v[i]>>] : v \in [DOMAIN inds -> VoteLists]}
           : inds \in Classified}
LabelThresholds == {Rational(0, 1), Rational(1, 2), Rational(1, 1), Rational(2, 1)}

\* cls(t1, t2) with self.structures = structs, then terminate()
apply_terminate(cls, structs, thr) ==
    /\ LET r == Predictor_terminate(structs, <<>>, thr)
       IN strategy_ret' = [call |-> <<cls, "terminate">>, structures |-> structs,
                           thr |-> thr, outcome |-> r.outcome, labels |-> r.labels]
    /\ UNCHANGED <<handlerVars, comparerVars, populationVars, modelVars, predictorVars,
                   randomVars, dispatchVars>>

NextTerminate ==
    /\ strategy_ret = NoCall
    /\ \E cls \in Predictors, structs \in Accumulators, thr \in LabelThresholds :
          apply_terminate(cls, structs, thr)

SpecTerminate == Init /\ [][NextTerminate]_vars

Terminated == strategy_ret # NoCall /\ Len(strategy_ret.call) = 2

\* the number of votes of l that name g
VotesFor(l, g) == Cardinality({k \in DOMAIN l : l[k] = g})

Largest(S) == IF S = {} THEN 0 ELSE CHOOSE n \in S : \A m \in S : m <= n

\* the label the finalization rule gives to a non-empty list of votes when g is
\* taken as its most-voted group: the second-highest count is the highest count
\* of another group, and 0 when no other group was voted
RuleLabel(l, g, thr) ==
    LET top == VotesFor(l, g)
        second == Largest({VotesFor(l, h) : h \in Range(l) \ {g}})
        normalized == RLess(Rational(0, 1), thr) /\ RLess(thr, Rational(1, 1))
        gap == IF normalized THEN Rational(top - second, top) ELSE Rational(top - second, 1)
    IN IF RGeq(gap, thr) THEN g ELSE "---"

\* l names g at least as often as any other group
MostVoted(l, g) == g \in Range(l) /\ \A h \in Range(l) : VotesFor(l, h) <= VotesFor(l, g)

\* C14: after terminate, each classified individual that has votes is labelled
\* with its most-voted group when the gap between the top and the second-highest
\* count (divided by the top count exactly when 0 < t2 < 1) is >= t2, and with
\* "---" otherwise, whichever the strategy.
C14_FinalLabelRule ==
    Terminated =>
        \A k \in DOMAIN strategy_ret.structures :
            LET individual == strategy_ret.structures[k][1]
                l == strategy_ret.structures[k][2]
            IN l # <<>> =>
                  /\ DictHas(strategy_ret.labels, individual)
                  /\ \E g \in Range(l) :
                        /\ MostVoted(l, g)
                        /\ DictGet(strategy_ret.labels, individual) = RuleLabel(l, g, strategy_ret.thr)

\* C15: when an individual being classified has no vote at finalization,
\* terminate completes without raising, labels that individual "---" and
\* labels every other individual as well.
C15_EmptyAccumulatorUnresolved ==
    (Terminated /\ \E k \in DOMAIN strategy_ret.structures :
                        strategy_ret.structures[k][2] = <<>>) =>
        /\ strategy_ret.outcome = "ok"
        /\ \A k \in DOMAIN strategy_ret.structures :
              /\ DictHas(strategy_ret.labels, strategy_ret.structures[k][1])
              /\ strategy_ret.structures[k][2] = <<>> =>
                    DictGet(strategy_ret.labels, strategy_ret.structures[k][1]) = "---"

\* ---------------------------------------------------------------------------
\* Claims on the rows a predictor processes

\* no column of the header belongs to an individual of the registry, so the
\* frequency table computed for a row is empty
NoKnownColumn ==
    /\ n_headers > 0
    /\ ~from_info
    /\ \A k \in DOMAIN population_labels : population_labels[k] = "---"

\* this step hands a data row to process_data, which does not skip it
RowProcessed ==
    /\ handler_class \in Predictors
    /\ n_data' = n_data + 1
    /\ polymorphisms.is_none \/ polymorphism_count' = polymorphism_count + 1

\* C16: a processed data row whose frequency table is empty appends no vote to
\* any accumulator and raises no error, under both strategies.
C16_EmptyTableRow ==
    [][(NoKnownColumn /\ RowProcessed) => (err' = NoError /\ structures' = structures)]_vars

\* the votes the strategy of the predictor produces on the row fields for the
\* dosage ratio of the column that the header gives to individual
OwnColumnVotes(individual, fields) ==
    LET df == data_fields(fields, has_genotype_field)
        genotypes == [k \in DOMAIN df |-> Predictor_process_variant(df[k])]
        freqs == get_frequencies(fixed_fields(fields), genotypes, from_info,
                                 population_labels, set_iteration).freqs
        own == Predictor_process_variant(FieldOf(individual, hdr, df))
    IN process_individual_genotype(handler_class, freqs, own, t1).votes

\* C17: on every processed data row, the votes appended to the accumulator of
\* each individual being classified are the votes of the strategy for the ratio
\* of that individual's own column of the header, whatever the order of the
\* list of individuals to classify.
C17_VotesFromOwnColumn ==
    [][\A fields \in PredictorDataLines(RowWidth, has_genotype_field, {NoInfo}) :
          (PredictorRunData(fields) /\ RowProcessed /\ n_headers > 0 /\ err' = NoError) =>
              \A k \in DOMAIN individuals :
                  DictGet(structures', individuals[k])
                      = DictGet(structures, individuals[k])
                            \o OwnColumnVotes(individuals[k], fields)]_vars

\* ---------------------------------------------------------------------------
\* Two runs of one predictor on the same inputs, each in an interpreter of its own

\* the element of a set of one element
TheOne(S) == CHOOSE x \in S : TRUE

\* Handler.run, the loop over the data rows that follow the header line
RECURSIVE RunRows(_, _, _, _, _, _, _, _, _)
RunRows(cls, thr, rows, inds, d, frinfo, plabels, structs, order) ==
    IF rows = <<>> THEN [err |-> NoError, structures |-> structs]
    ELSE TheOne({IF r.err # NoError THEN [err |-> r.err, structures |-> r.structures]
                 ELSE RunRows(cls, thr, Tail(rows), inds, d, r.from_info, plabels,
                              r.structures, order) :
                 r \in {Predictor_process_data(cls, thr, fixed_fields(rows[1]),
                                               data_fields(rows[1], "True"), inds, d,
                                               frinfo, plabels, structs, order, TRUE)}})

\* cls(t[1], t[2]), set_populations(registry, inds), then run on a stream made of
\* the header line and the rows: the labels it leaves and the exception it raises
run_labels(cls, t, registry, inds, header, rows, order) ==
    LET vcf_individuals == HeaderIndividuals(header)
        d == IndexLoop(vcf_individuals, inds, <<>>, 1)
        e == Predictor_MissingIndividual(inds, d, vcf_individuals)
        frinfo == Range(DictKeys(registry.group_to_individuals)) = SUPERPOPULATIONS
    IN IF e # NoError THEN [err |-> e, labels |-> <<>>]
       ELSE TheOne({IF r.err # NoError THEN [err |-> r.err, labels |-> <<>>]
                    ELSE TheOne({[err |-> IF f.outcome = "ok" THEN NoError
                                          ELSE [type |-> f.outcome],
                                  labels |-> f.labels] :
                                 f \in {Predictor_terminate(r.structures, <<>>, t[2])}}) :
                    r \in {RunRows(cls, t[1], rows, inds, d, frinfo,
                                   population_labels_of(registry.individual_to_group,
                                                        vcf_individuals),
                                   make_structures(inds), order)}})

TwinHeader == HeaderNames \o <<"FORMAT", "c">>
MaxTwinRows == 2

TwinRows == {fields \in PredictorDataLines(1, "True", InfoFields) :
                 fields[ID_COLUMN + 1] = "rs1"}
TwinStreams == UNION {[1..n -> TwinRows] : n \in 1..MaxTwinRows}

two_runs(cls, t, rows, o1, o2) ==
    /\ strategy_ret' =
           [call |-> <<cls, "run", "run">>, t |-> t, rows |-> rows, orders |-> <<o1, o2>>,
            first |-> run_labels(cls, t, SuperRegistry, <<"c">>, TwinHeader, rows, o1),
            second |-> run_labels(cls, t, SuperRegistry, <<"c">>, TwinHeader, rows, o2)]
    /\ UNCHANGED <<handlerVars, comparerVars, populationVars, modelVars, predictorVars,
                   randomVars, dispatchVars>>

NextTwoRuns ==
    /\ strategy_ret = NoCall
    /\ \E cls \in Predictors, t \in Thresholds, rows \in TwinStreams,
          o1 \in Iterations, o2 \in Iterations : two_runs(cls, t, rows, o1, o2)

SpecTwoRuns == Init /\ [][NextTwoRuns]_vars

\* C18: two runs of the same strategy on fresh instances with the same registry,
\* individuals to classify, filter, thresholds and stream leave the same labels.
C18_SameInputsSameLabels ==
    (strategy_ret # NoCall /\ Len(strategy_ret.call) = 3) =>
        strategy_ret.first = strategy_ret.second

\* C19: when a variant filter is set, a data row whose identifier is not in the
\* filter changes no accumulator, nor the count of requested variants seen, nor
\* the flag that tells whether frequencies are read from the INFO field.
C19_FilteredRowSkipped ==
    [][\A fields \in PredictorDataLines(InfoRowWidth, has_genotype_field, InfoFields) :
          (/\ ~polymorphisms.is_none
           /\ fields[ID_COLUMN + 1] \notin polymorphisms.ids
           /\ PredictorRunData(fields)) =>
              /\ structures' = structures
              /\ polymorphism_count' = polymorphism_count
              /\ from_info' = from_info]_vars

\* a run with a filter that has skipped a row, after a row it processed left
\* votes and with the frequencies still read from the INFO field
C19_Witness ==
    /\ handler_class \in Predictors
    /\ ~polymorphisms.is_none
    /\ n_data > polymorphism_count
    /\ polymorphism_count > 0
    /\ from_info
    /\ err = NoError
    /\ \E k \in DOMAIN structures : structures[k][2] # <<>>

\* C20: with a non-empty filter, the predictor has requested early termination
\* exactly when every identifier of the filter has been the identifier of a
\* processed row, streams that repeat an identifier included.
C20_EarlyWhenAllSeen ==
    (/\ handler_class \in Predictors
     /\ ~polymorphisms.is_none /\ polymorphisms.ids # {}
     /\ err = NoError) =>
        (terminate_early <=> polymorphisms.ids \subseteq seen_ids)

----------------------------------------------------------------------------
(* vcf/comparer.py: a RandomComparer and one run of it *)

\* hex(n) for n >= 0, as a character sequence
HexChars == <<"0", "1", "2", "3", "4", "5", "6", "7", "8", "9",
              "a", "b", "c", "d", "e", "f">>

RECURSIVE HexDigits(_)
HexDigits(n) ==
    IF n < 16 THEN <<HexChars[n + 1]>>
    ELSE HexDigits(n \div 16) \o <<HexChars[(n % 16) + 1]>>

hex(n) == <<"0", "x">> \o HexDigits(n)

\* ord(c) for the characters of hex(n)
ord(c) ==
    IF c = "x" THEN 120
    ELSE LET d == CHOOSE i \in DOMAIN HexChars : HexChars[i] = c
         IN IF d <= 10 THEN 47 + d ELSE 86 + d

\* a compare that is not overridden: Comparer.compare, which reads self.values
RandomComparer_inherited_compare(hashes, id1, id2) ==
    [call |-> <<id1, id2>>,
     outcome |-> Comparer_compare(values, id1, id2).outcome,
     value |-> Comparer_compare(values, id1, id2).value]

\* RandomComparer.compare
RandomComparer_compare(hashes, id1, id2) ==
    LET hash1 == hex(hashes[id1])
        hash2 == hex(hashes[id2])
        n == IF Len(hash1) < Len(hash2) THEN Len(hash1) ELSE Len(hash2)
        diff(k) == IF ord(hash1[k]) >= ord(hash2[k])
                   THEN ord(hash1[k]) - ord(hash2[k])
                   ELSE ord(hash2[k]) - ord(hash1[k])
    IN [call |-> <<id1, id2>>, outcome |-> "value",
        value |-> Sum([k \in 1..n |-> diff(k)])]

\* hash(self.salt + identifier) & mask, for two instances
SaltHashes ==
    { [i \in Ids \cup {Stranger} |->
          IF i = "a" THEN 10 ELSE IF i = "b" THEN 255 ELSE IF i = "c" THEN 4096 ELSE 2748],
      [i \in Ids \cup {Stranger} |->
          IF i = "a" THEN 171 ELSE IF i = "b" THEN 171 ELSE IF i = "c" THEN 0 ELSE 65535] }

RandomTargets == { <<"a", "b">>, <<"c", "a", "b">> }
RandomHeaderLines ==
    { HeaderNames \o <<"FORMAT", "a", "b", "c">>, HeaderNames \o <<"b", "a">> }
RandomGenotypeFields == { <<"0", "|", "0">>, <<"0", "|", "1">> }
RandomDataLines(n, hgf) ==
    {DescriptiveFields \o (IF hgf = "True" THEN <<"GT">> ELSE <<>>) \o gts :
        gts \in [1..n -> RandomGenotypeFields]}

\* RandomComparer.__init__
InitRandomComparer ==
    /\ handler_class = "RandomComparer"
    /\ salt_hashes \in SaltHashes
    /\ strategy_ret = NoCall /\ NoStream
    /\ InitRun /\ InitPopulation /\ InitModel /\ InitPredictor

\* Comparer.set_individuals
Random_set_individuals(inp) ==
    /\ handler_class = "RandomComparer"
    /\ phase = "new"
    /\ input_individuals' = inp
    /\ individual_indeces' = <<>>
    /\ phase' = "configured"
    /\ UNCHANGED <<has_genotype_field, err, hdr, n_headers, n_meta, n_data, n_pre,
                   n_terminate, pairs, idx_pairs, values, ret, expected>>
    /\ UNCHANGED notComparerVars

\* Handler.run up to the loop: prepare()
RandomRunPrepare ==
    /\ handler_class = "RandomComparer"
    /\ phase = "configured"
    /\ phase' = "running"
    /\ UNCHANGED <<has_genotype_field, err, hdr, n_headers, n_meta, n_data, n_pre,
                   n_terminate, comparerVars>>
    /\ UNCHANGED notComparerVars

\* Handler.run on a line that starts with "##": RandomComparer.process_meta
RandomRunMeta(fields) ==
    /\ handler_class = "RandomComparer"
    /\ phase = "running"
    /\ n_lines < MaxLines
    /\ IsMetaLine(fields)
    /\ n_meta' = n_meta + 1
    /\ UNCHANGED <<phase, has_genotype_field, err, hdr, n_headers, n_data, n_pre,
                   n_terminate, comparerVars>>
    /\ UNCHANGED notComparerVars

\* Handler.run on a line that starts with "#": Comparer.process_individuals
RandomRunHeader(fields) ==
    /\ handler_class = "RandomComparer"
    /\ phase = "running"
    /\ n_lines < MaxLines
    /\ IsHeaderLine(fields)
    /\ LET vcf_individuals == HeaderIndividuals(fields)
           d == IndexLoop(vcf_individuals, input_individuals, individual_indeces, 1)
           e == MissingIndividual(input_individuals, d, vcf_individuals)
       IN /\ has_genotype_field' = HeaderHasGenotype(fields)
          /\ individual_indeces' = d
          /\ hdr' = vcf_individuals
          /\ n_headers' = n_headers + 1
          /\ err' = e
          /\ IF e # NoError
             THEN /\ phase' = "failed"
                  /\ UNCHANGED <<pairs, idx_pairs, values>>
             ELSE /\ phase' = phase
                  /\ pairs' = Combinations2(DictKeys(d))
                  /\ idx_pairs' = Combinations2(DictValues(d))
                  /\ values' = [i \in DOMAIN Combinations2(DictKeys(d)) |-> init_factory]
    /\ UNCHANGED <<input_individuals, ret, expected, n_meta, n_data, n_pre,
                   n_terminate>>
    /\ UNCHANGED notComparerVars

\* Handler.run on any other line: Comparer.process_data with the process_variant
\* of Comparer and the update_comparison of RandomComparer, which does nothing
RandomRunData(fields) ==
    /\ handler_class = "RandomComparer"
    /\ phase = "running"
    /\ n_lines < MaxLines
    /\ ~IsMetaLine(fields) /\ ~IsHeaderLine(fields)
    /\ LET df == data_fields(fields, has_genotype_field)
       IN IF FormatIndexError(fields, has_genotype_field)
          THEN /\ err' = [type |-> "IndexError"]
               /\ phase' = "failed"
               /\ UNCHANGED <<n_data, n_pre>>
          ELSE /\ n_data' = n_data + 1
               /\ n_pre' = IF n_headers = 0 THEN n_pre + 1 ELSE n_pre
               /\ IF DataIndexError(df, individual_indeces)
                  THEN /\ err' = [type |-> "IndexError"]
                       /\ phase' = "failed"
                  ELSE UNCHANGED <<err, phase>>
    /\ UNCHANGED <<has_genotype_field, hdr, n_headers, n_meta, n_terminate, comparerVars>>
    /\ UNCHANGED notComparerVars

\* Handler.run at the end of the stream: Comparer.terminate
RandomRunEnd ==
    /\ handler_class = "RandomComparer"
    /\ phase = "running"
    /\ values' = Comparer_terminate(pairs, values, 1)
    /\ pairs' = <<>>
    /\ idx_pairs' = <<>>
    /\ n_terminate' = n_terminate + 1
    /\ phase' = "done"
    /\ UNCHANGED <<has_genotype_field, err, hdr, n_headers, n_meta, n_data, n_pre,
                   input_individuals, individual_indeces, ret, expected>>
    /\ UNCHANGED notComparerVars

\* RandomComparer.compare, called before, instead of or after a run
Random_compare(id1, id2) ==
    /\ handler_class = "RandomComparer"
    /\ phase # "running"
    /\ ret' = RandomComparer_compare(salt_hashes, id1, id2)
    /\ UNCHANGED <<handlerVars, input_individuals, individual_indeces, pairs, idx_pairs,
                   values, expected>>
    /\ UNCHANGED notComparerVars

NextRandomComparer ==
    \/ \E inp \in RandomTargets : Random_set_individuals(inp)
    \/ RandomRunPrepare
    \/ RandomRunMeta(<<MetaField>>)
    \/ \E fields \in RandomHeaderLines : n_headers = 0 /\ RandomRunHeader(fields)
    \/ \E fields \in RandomDataLines(RowWidth, has_genotype_field) : RandomRunData(fields)
    \/ RandomRunEnd
    \/ \E id1, id2 \in Ids \cup {Stranger} : Random_compare(id1, id2)

SpecRandomComparer == InitRandomComparer /\ [][NextRandomComparer]_vars

\* C21: for one RandomComparer, a compare of two identifiers returns what the
\* compare of the same identifiers returned last, whatever was configured or
\* consumed in between.
C21_CompareIgnoresStream ==
    [][(/\ handler_class = "RandomComparer"
        /\ ret # NoCall /\ ret' # NoCall
        /\ ret'.call = ret.call) => ret' = ret]_vars

\* a compare with an identifier that is no target, after a stream with data rows
C21_Witness ==
    /\ handler_class = "RandomComparer"
    /\ phase = "done" /\ n_headers = 1 /\ n_data > 0
    /\ ret # NoCall
    /\ ret.call = <<"a", Stranger>>
    /\ ret.value > 0

----------------------------------------------------------------------------
(* vcf/handler.py: Handler.run on raw lines.  A line is a sequence of characters
   in which a run of characters other than '#', tab and newline is written as
   one element. *)

TAB == "\t"
NEWLINE == "\n"

\* str.rstrip(c)
RECURSIVE Rstrip(_, _)
Rstrip(s, c) ==
    IF s # <<>> /\ s[Len(s)] = c THEN Rstrip(SubSeq(s, 1, Len(s) - 1), c) ELSE s

\* a test of the first character only
StartsWithFirstOf(s, prefix) == s # <<>> /\ s[1] = prefix[1]

\* str.startswith(prefix)
StartsWith(s, prefix) == Len(s) >= Len(prefix) /\ SubSeq(s, 1, Len(prefix)) = prefix

\* str.join
RECURSIVE Join(_, _)
Join(fields, sep) ==
    IF fields = <<>> THEN <<>>
    ELSE IF Len(fields) = 1 THEN fields[1]
    ELSE fields[1] \o <<sep>> \o Join(Tail(fields), sep)

\* a loop body that splits every line after the eighth column, whatever the
\* header declared
dispatch_fields_fixed_split(line, hgf) ==
    LET fields == Split(line, TAB)
    IN IF StartsWith(line, <<"#">>)
       THEN [hgf |-> IF <<"FORMAT">> \in Range(fields) THEN "True" ELSE "False",
             err |-> NoError,
             call |-> <<[name |-> "process_individuals",
                         args |-> <<SliceFrom(fields, FIXED_FIELDS_LENGTH)>>]>>]
       ELSE [hgf |-> hgf, err |-> NoError,
             call |-> <<[name |-> "process_data",
                         args |-> <<SliceTo(fields, FIXED_FIELDS_LENGTH), <<>>,
                                    SliceFrom(fields, FIXED_FIELDS_LENGTH)>>]>>]

\* the outcome of run on one line that is no metadata line: the value of
\* has_genotype_field after it, the callback invoked, and the exception raised
dispatch_fields(line, hgf) ==
    LET fields == Split(line, TAB)
    IN IF StartsWith(line, <<"#">>)
       THEN LET has == IF <<"FORMAT">> \in Range(fields) THEN "True" ELSE "False"
                individuals_ == IF has = "True"
                                THEN SliceFrom(fields, FIXED_FIELDS_LENGTH + 1)
                                ELSE SliceFrom(fields, FIXED_FIELDS_LENGTH)
            IN [hgf |-> has, err |-> NoError,
                call |-> <<[name |-> "process_individuals", args |-> <<individuals_>>]>>]
       ELSE IF hgf = "True" /\ Len(fields) <= FIXED_FIELDS_LENGTH
       THEN [hgf |-> hgf, err |-> [type |-> "IndexError"], call |-> <<>>]
       ELSE [hgf |-> hgf, err |-> NoError,
             call |-> <<[name |-> "process_data",
                         args |-> <<SliceTo(fields, FIXED_FIELDS_LENGTH),
                                    IF hgf = "True" THEN fields[FIXED_FIELDS_LENGTH + 1]
                                    ELSE <<>>,
                                    IF hgf = "True"
                                    THEN SliceFrom(fields, FIXED_FIELDS_LENGTH + 1)
                                    ELSE SliceFrom(fields, FIXED_FIELDS_LENGTH)>>]>>]

\* the body of the loop of run on one raw line
dispatch_line(raw, hgf) ==
    LET line == Rstrip(raw, NEWLINE)
    IN IF StartsWith(line, <<"#", "#">>)
       THEN [hgf |-> hgf, err |-> NoError,
             call |-> <<[name |-> "process_meta", args |-> <<line>>]>>]
       ELSE dispatch_fields(line, hgf)

\* the lines of the streams
RawHeaderNames ==
    << <<"#", "CHROM">>, <<"POS">>, <<"ID">>, <<"REF">>, <<"ALT">>, <<"QUAL">>,
       <<"FILTER">>, <<"INFO">> >>
RawDescriptive ==
    << <<"1">>, <<"100">>, <<"rs1">>, <<"A">>, <<"G">>, <<".">>, <<"PASS">>, <<".">> >>
RawLines ==
    { <<"#", "#", "fileformat=VCFv4.1", NEWLINE>>,
      <<"#", "#", "source">>,
      Join(RawHeaderNames \o << <<"FORMAT">>, <<"a">>, <<"b">> >>, TAB) \o <<NEWLINE>>,
      Join(RawHeaderNames \o << <<"b">>, <<"a">> >>, TAB) \o <<NEWLINE>>,
      Join(SubSeq(RawHeaderNames, 1, 2), TAB) \o <<NEWLINE>>,
      Join(RawDescriptive \o << <<"GT">>, <<"0|0">>, <<"0|1">> >>, TAB) \o <<NEWLINE>>,
      Join(RawDescriptive \o << <<"0|1">>, <<"1|1">> >>, TAB) \o <<NEWLINE>>,
      Join(RawDescriptive, TAB) \o <<NEWLINE>>,
      Join(SubSeq(RawDescriptive, 1, 2), TAB) \o <<NEWLINE>>,
      <<NEWLINE>> }
RawStreams == UNION {[1..n -> RawLines] : n \in 0..MaxLines}

\* a handler whose callbacks return, as those of Printer do, and a stream for it
InitDispatch ==
    /\ handler_class = "Printer"
    /\ stream \in RawStreams
    /\ pos = 0
    /\ callbacks = <<>>
    /\ strategy_ret = NoCall /\ salt_hashes = <<>>
    /\ InitRun /\ InitPopulation /\ InitModel /\ InitPredictor

\* Handler.run up to the loop: prepare()
DispatchPrepare ==
    /\ handler_class = "Printer"
    /\ phase = "new"
    /\ phase' = "running"
    /\ UNCHANGED <<has_genotype_field, err, hdr, n_headers, n_meta, n_data, n_pre,
                   n_terminate, comparerVars, dispatchVars>>
    /\ UNCHANGED <<populationVars, modelVars, predictorVars, callVars, randomVars>>

\* Handler.run: one turn of the loop
DispatchLine ==
    /\ handler_class = "Printer"
    /\ phase = "running"
    /\ pos < Len(stream)
    /\ pos' = pos + 1
    /\ LET r == dispatch_line(stream[pos + 1], has_genotype_field)
           name == IF r.call = <<>> THEN "none" ELSE r.call[1].name
       IN /\ has_genotype_field' = r.hgf
          /\ err' = r.err
          /\ phase' = IF r.err # NoError THEN "failed" ELSE phase
          /\ callbacks' = callbacks \o r.call
          /\ n_meta' = IF name = "process_meta" THEN n_meta + 1 ELSE n_meta
          /\ n_headers' = IF name = "process_individuals" THEN n_headers + 1 ELSE n_headers
          /\ hdr' = IF name = "process_individuals" THEN r.call[1].args[1] ELSE hdr
          /\ n_data' = IF name = "process_data" THEN n_data + 1 ELSE n_data
          /\ n_pre' = IF name = "process_data" /\ n_headers = 0 THEN n_pre + 1 ELSE n_pre
    /\ UNCHANGED <<n_terminate, stream, comparerVars>>
    /\ UNCHANGED <<populationVars, modelVars, predictorVars, callVars, randomVars>>

\* Handler.run at the end of the stream: terminate()
DispatchEnd ==
    /\ handler_class = "Printer"
    /\ phase = "running"
    /\ pos = Len(stream)
    /\ n_terminate' = n_terminate + 1
    /\ phase' = "done"
    /\ UNCHANGED <<has_genotype_field, err, hdr, n_headers, n_meta, n_data, n_pre,
                   comparerVars, dispatchVars>>
    /\ UNCHANGED <<populationVars, modelVars, predictorVars, callVars, randomVars>>

NextDispatch == DispatchPrepare \/ DispatchLine \/ DispatchEnd

SpecDispatch == InitDispatch /\ [][NextDispatch]_vars

\* a raw line without its trailing newline
LineText(raw) ==
    IF raw # <<>> /\ raw[Len(raw)] = NEWLINE THEN SubSeq(raw, 1, Len(raw) - 1) ELSE raw

\* the callback that a raw line is for
KindOf(raw) ==
    LET text == LineText(raw)
    IN IF Len(text) >= 2 /\ text[1] = "#" /\ text[2] = "#" THEN "process_meta"
       ELSE IF Len(text) >= 1 /\ text[1] = "#" THEN "process_individuals"
       ELSE "process_data"

\* C22: run reads the lines in stream order and invokes one callback for each
\* line it has read (none for the line on which it raised): process_meta with
\* the line minus its trailing newline for a line that starts with "##",
\* process_individuals for another line that starts with "#", process_data for
\* any other line; no line is read before the callback of the previous one.
C22_OneCallbackPerLine ==
    handler_class = "Printer" =>
        /\ pos <= Len(stream)
        /\ Len(callbacks) = IF err = NoError THEN pos ELSE pos - 1
        /\ \A k \in DOMAIN callbacks :
              /\ callbacks[k].name = KindOf(stream[k])
              /\ callbacks[k].name = "process_meta" =>
                    callbacks[k].args = <<LineText(stream[k])>>

\* a stream of a metadata line, a header line and a data row, read to its end
C22_Witness ==
    /\ handler_class = "Printer"
    /\ phase = "done"
    /\ pos = 3
    /\ [k \in DOMAIN callbacks |-> callbacks[k].name]
           = <<"process_meta", "process_individuals", "process_data">>

\* C23: within one run the column order and the split point are established
\* once, by the first header line: process_individuals is invoked at most once,
\* and no later line changes has_genotype_field or the header's individuals
\* once a header line has set them.
C23_HeaderEstablishedOnce ==
    [][(handler_class = "Printer" /\ n_headers >= 1) =>
           /\ n_headers' = n_headers
           /\ has_genotype_field' = has_genotype_field
           /\ hdr' = hdr]_vars

\* the columns of a raw line, and the columns from the n-th on (n counted from 1)
Columns(raw) == Split(LineText(raw), TAB)
ColumnsFrom(cols, n) == [i \in 1..(Len(cols) - n + 1) |-> cols[n + i - 1]]
FirstColumns(cols, n) == [i \in 1..(IF Len(cols) < n THEN Len(cols) ELSE n) |-> cols[i]]

\* the position in the stream of the last header line before line k; 0 if none
LastHeader(k) ==
    LET before == {j \in 1..(k - 1) : KindOf(stream[j]) = "process_individuals"}
    IN IF before = {} THEN 0 ELSE CHOOSE j \in before : \A i \in before : i <= j

\* the column, counted from 1, of the first individual under a header line
FirstIndividualColumn(raw) ==
    IF <<"FORMAT">> \in Range(Columns(raw)) THEN 10 ELSE 9

\* C24: a header line that names FORMAT gives the individuals of its columns
\* from the 10th on, and a data row under it is forwarded as (first 8 fields,
\* 9th field, fields from the 10th on); another header line gives the columns
\* from the 9th on and its data rows are forwarded as (first 8 fields, empty
\* format, fields from the 9th on); the i-th data field and the i-th individual
\* come from the same column.
C24_SplitFollowsFormat ==
    handler_class = "Printer" =>
        \A k \in DOMAIN callbacks :
            LET cols == Columns(stream[k])
                h == LastHeader(k)
            IN /\ callbacks[k].name = "process_individuals" =>
                     callbacks[k].args
                         = <<ColumnsFrom(cols, FirstIndividualColumn(stream[k]))>>
               /\ (callbacks[k].name = "process_data" /\ h > 0) =>
                     LET first == FirstIndividualColumn(stream[h])
                         data == callbacks[k].args[3]
                         individuals_ == callbacks[h].args[1]
                     IN /\ callbacks[k].args
                               = <<FirstColumns(cols, 8),
                                   IF first = 10 THEN cols[9] ELSE <<>>,
                                   ColumnsFrom(cols, first)>>
                        /\ \A i \in DOMAIN data :
                              /\ data[i] = cols[first + i - 1]
                              /\ i \in DOMAIN individuals_ =>
                                    individuals_[i] = Columns(stream[h])[first + i - 1]

\* a header line with FORMAT and a data row with a format field and two
\* genotype fields, both forwarded
C24_Witness ==
    /\ handler_class = "Printer"
    /\ phase = "done"
    /\ Len(callbacks) = 2
    /\ callbacks[1] = [name |-> "process_individuals",
                       args |-> << << <<"a">>, <<"b">> >> >>]
    /\ callbacks[2] = [name |-> "process_data",
                       args |-> <<RawDescriptive, <<"GT">>,
                                  << <<"0|0">>, <<"0|1">> >> >>]

\* the least number of columns of line k: 8, and 9 under a header that names
\* FORMAT (for a header line, the line itself)
MinimumColumns(k) ==
    LET h == IF KindOf(stream[k]) = "process_individuals" THEN k ELSE LastHeader(k)
    IN IF h > 0 /\ FirstIndividualColumn(stream[h]) = 10 THEN 9 ELSE 8

\* C25: a header line or a data row with fewer columns than the minimum makes
\* run fail on that line: no callback is invoked for it and no later line is
\* read.
C25_ShortLineFails ==
    handler_class = "Printer" =>
        \A k \in 1..pos :
            (/\ KindOf(stream[k]) # "process_meta"
             /\ Len(Columns(stream[k])) < MinimumColumns(k))
            => /\ err # NoError
               /\ pos = k
               /\ Len(callbacks) = k - 1

----------------------------------------------------------------------------
(* The two sources of the frequencies of a row *)

\* a registry with four of the five superpopulations
FourRegistry ==
    PopulationOf(<<<<"a", "AFR">>, <<"b", "AMR">>, <<"k", "EAS">>, <<"l", "EUR">>>>)

\* an INFO field that lacks the frequency of one superpopulation
PartialInfo ==
    << <<"AFR_AF", <<Rational(1, 10)>>>>, <<"AMR_AF", <<Rational(9, 10)>>>>,
       <<"EUR_AF", <<Rational(1, 2)>>>>, <<"SAS_AF", <<Rational(1, 4)>>>> >>

ModeInfoFields == InfoFields \cup {PartialInfo}

\* a header line with two known individuals and the one to classify
ModeHeaderLine == HeaderNames \o <<"FORMAT", "a", "b", "c">>

\* the genotype fields of a, b and c in a row under the header line
ModeGenotypes ==
    { << <<"0", "|", "0">>, <<"1", "/", "1", ":", "7">>, <<"0", "|", "0">> >>,
      << <<"0", "|", "0">>, <<"1", "/", "1", ":", "7">>, <<"1", "/", "1", ":", "7">> >>,
      << <<"1", "/", "1", ":", "7">>, <<"1", "/", "1", ":", "7">>, <<"0", "|", "0">> >> }

\* the data rows: of one column before the header line, of three under it
ModeRows ==
    IF n_headers = 0 THEN PredictorDataLines(1, has_genotype_field, ModeInfoFields)
    ELSE { <<"1", "100", id, "A", "G", ".", "PASS", info, "GT">> \o gts :
           id \in VariantIds, info \in ModeInfoFields, gts \in ModeGenotypes }

InitInfoMode ==
    /\ handler_class \in Predictors
    /\ \E t \in Thresholds : t1 = t[1] /\ t2 = t[2]
    /\ \E r \in {SuperRegistry, FourRegistry} :
          /\ individual_to_group = r.individual_to_group
          /\ group_to_individuals = r.group_to_individuals
    /\ population_ret = NoCall
    /\ set_iteration \in Iterations
    /\ InitRun /\ InitModel /\ InitPredictorFields /\ InitCalls

NextInfoMode ==
    \/ set_populations(<<"c">>)
    \/ set_polymorphisms({"rs1"})
    \/ PredictorRunPrepare
    \/ n_headers = 0 /\ PredictorRunHeader(ModeHeaderLine)
    \/ \E fields \in ModeRows : PredictorRunData(fields)
    \/ PredictorRunEnd

SpecInfoMode == InitInfoMode /\ [][NextInfoMode]_vars

\* an INFO field has the frequency entries of the five superpopulations
HasAllFive(info) ==
    \A pop \in SUPERPOPULATIONS :
        \E i \in DOMAIN info : Len(info[i]) = 2 /\ info[i][1] = AF(pop)

\* the frequencies an INFO field gives, in the order the set iterates
InfoTable(info) ==
    [i \in DOMAIN set_iteration |->
        <<set_iteration[i],
          RSum(info[CHOOSE j \in DOMAIN info :
                        Len(info[j]) = 2 /\ info[j][1] = AF(set_iteration[i])][2])>>]

\* every accumulator of after begins with the accumulator of before
Extends(before, after) ==
    /\ DictKeys(after) = DictKeys(before)
    /\ \A i \in DOMAIN before :
          /\ Len(after[i][2]) >= Len(before[i][2])
          /\ SubSeq(after[i][2], 1, Len(before[i][2])) = before[i][2]

\* C26: the frequencies of a row are read from its INFO field only if the
\* groups of the registry are the five superpopulations and the field has the
\* five frequencies; the first processed row that lacks one is handled with
\* computed frequencies and turns the reading off for the rest of the run; the
\* votes of earlier rows stay as they are.
C26_InfoModeSwitch ==
    [][/\ (handler_class \in Predictors /\ phase = "running" /\ ~from_info) => ~from_info'
       /\ (handler_class \in Predictors /\ from_info') =>
              Range(DictKeys(group_to_individuals)) = SUPERPOPULATIONS
       /\ \A fields \in ModeRows :
             (/\ handler_class \in Predictors
              /\ phase = "running"
              /\ polymorphisms.is_none \/ fields[ID_COLUMN + 1] \in polymorphisms.ids
              /\ PredictorRunData(fields)) =>
                 LET info == fields[INFO_COLUMN + 1]
                     df == data_fields(fields, has_genotype_field)
                     genotypes == [k \in DOMAIN df |-> Predictor_process_variant(df[k])]
                     reads == from_info /\ HasAllFive(info)
                     freqs == IF reads THEN InfoTable(info)
                              ELSE ComputedFrequencies(population_labels, genotypes)
                 IN /\ from_info' = reads
                    /\ err' = NoError =>
                          /\ structures' =
                                 VoteLoop(handler_class, t1, freqs, individuals,
                                          filter_genotypes(genotypes, individual_indeces),
                                          1, structures, <<>>)
                          /\ n_headers > 0 => Extends(structures, structures')]_vars

\* a run that read the frequencies of its first row from the INFO field (the
\* ten votes of the pairs of five groups) and computed those of its second
\* row (the vote of the one pair of the groups of a and b)
C26_Witness ==
    /\ handler_class = "PredictorMariana"
    /\ Range(DictKeys(group_to_individuals)) = SUPERPOPULATIONS
    /\ ~from_info
    /\ n_headers = 1 /\ n_pre = 0 /\ n_data = 2
    /\ err = NoError
    /\ Len(DictGet(structures, "c")) = 11

----------------------------------------------------------------------------
(* Rows in which individuals share a dosage ratio *)

\* the genotype fields of a and b, the known individuals, and of c and d
KnownGenotypes ==
    { << <<"0", "|", "0">>, <<"1", "/", "1", ":", "7">> >>,
      << <<"1", "/", "1", ":", "7">>, <<"0", "|", "0">> >>,
      << <<"0", "|", "0">>, <<"0", "|", "0">> >> }
WantedGenotypes ==
    { << <<"0", "|", "0">>, <<"0", "|", "0">> >>,
      << <<"1", "|", "1">>, <<"1", "/", "1", ":", "7">> >>,
      << <<"0", "|", "0">>, <<"1", "/", "1", ":", "7">> >>,
      << <<"0", "|", "1">>, <<"1", "/", "0">> >> }

CacheRows ==
    { <<"1", "100", "rs1", "A", "G", ".", "PASS", NoInfo, "GT">> \o known \o wanted :
      known \in KnownGenotypes, wanted \in WantedGenotypes }

InitCache ==
    /\ handler_class \in Predictors
    /\ \E t \in Thresholds : t1 = t[1] /\ t2 = t[2]
    /\ \E r \in Registries :
          /\ individual_to_group = r.individual_to_group
          /\ group_to_individuals = r.group_to_individuals
    /\ population_ret = NoCall
    /\ set_iteration = <<"AFR", "AMR", "EUR", "SAS", "EAS">>
    /\ InitRun /\ InitModel /\ InitPredictorFields /\ InitCalls

NextCache ==
    \/ \E inds \in Wanted : set_populations(inds)
    \/ PredictorRunPrepare
    \/ n_headers = 0 /\ PredictorRunHeader(HeaderNames \o <<"FORMAT", "a", "b", "c", "d">>)
    \/ \E fields \in CacheRows : n_headers = 1 /\ PredictorRunData(fields)
    \/ PredictorRunEnd

SpecCache == InitCache /\ [][NextCache]_vars

\* C27: the votes a row adds to the accumulator of each individual are those
\* of one invocation of the strategy for that individual, on the frequencies
\* of the row and the dosage ratio paired with the individual; nothing of an
\* earlier row enters them.
C27_CacheIsTransparent ==
    [][\A fields \in CacheRows :
          (/\ handler_class \in Predictors
           /\ phase = "running"
           /\ n_headers > 0
           /\ polymorphisms.is_none \/ fields[ID_COLUMN + 1] \in polymorphisms.ids
           /\ PredictorRunData(fields)
           /\ err' = NoError) =>
              LET df == data_fields(fields, has_genotype_field)
                  genotypes == [k \in DOMAIN df |-> Predictor_process_variant(df[k])]
                  freqs == get_frequencies(fixed_fields(fields), genotypes, from_info,
                                           population_labels, set_iteration).freqs
                  mine == filter_genotypes(genotypes, individual_indeces)
              IN \A k \in 1..ZipLen(individuals, mine) :
                    DictGet(structures', individuals[k])
                        = DictGet(structures, individuals[k])
                              \o process_individual_genotype(handler_class, freqs,
                                                             mine[k], t1).votes]_vars

\* a row that gave the two individuals to classify the same dosage ratio: with
\* a margin of 1/2 both have the one vote that only a ratio equal to the
\* frequency of A gives
C27_Witness ==
    /\ handler_class = "PredictorJoao"
    /\ t1 = Rational(1, 2)
    /\ individuals = <<"d", "c">>
    /\ n_headers = 1 /\ n_data = 1 /\ polymorphism_count = 0
    /\ err = NoError
    /\ DictGet(structures, "d") = <<"A">>
    /\ DictGet(structures, "c") = <<"A">>

----------------------------------------------------------------------------
(* The computed frequencies of a row *)

\* header lines: the lists of up to MaxMembers individuals, repeats included;
\* d is in no registry
FrequencyHeaders == UNION {[1..n -> {"a", "b", "d"}] : n \in 0..MaxMembers}

\* registries: none known; a and b in one group; a and b in two groups, and a
\* third group with a member that no header line has
FrequencyRegistries ==
    { PopulationOf(<<>>),
      PopulationOf(<<<<"a", "A">>, <<"b", "A">>>>),
      PopulationOf(<<<<"a", "A">>, <<"b", "B">>, <<"c", "C">>>>) }

FrequencyGenotypeFields ==
    { <<"0", "|", "0">>, <<"0", "|", "1">>, <<"1", "/", "1", ":", "7">> }

\* process_individuals(vcf_individuals) of a predictor with the registry i2g,
\* then get_frequencies on a row with the data fields df, from_info being False
apply_frequencies(vcf_individuals, i2g, df) ==
    /\ LET plabels == population_labels_of(i2g, vcf_individuals)
           genotypes == [k \in DOMAIN df |-> Predictor_process_variant(df[k])]
           fixed == <<"1", "100", "rs1", "A", "G", ".", "PASS", NoInfo>>
           r == get_frequencies(fixed, genotypes, FALSE, plabels,
                                <<"AFR", "AMR", "EUR", "SAS", "EAS">>)
       IN strategy_ret' = [call |-> <<"get_frequencies", vcf_individuals, i2g, df>>,
                           genotypes |-> genotypes, outcome |-> r.outcome,
                           freqs |-> r.freqs]
    /\ UNCHANGED <<handlerVars, comparerVars, populationVars, modelVars, predictorVars,
                   randomVars, dispatchVars>>

NextFrequencies ==
    /\ strategy_ret = NoCall
    /\ \E vcf_individuals \in FrequencyHeaders, r \in FrequencyRegistries :
          \E df \in [DOMAIN vcf_individuals -> FrequencyGenotypeFields] :
              apply_frequencies(vcf_individuals, r.individual_to_group, df)

SpecFrequencies == Init /\ [][NextFrequencies]_vars

\* the last call was one of get_frequencies
FrequenciesCalled == strategy_ret # NoCall /\ Len(strategy_ret.call) = 4

\* the columns of the header line of the last call whose individual the
\* registry maps to the group g
ColumnsOf(g) ==
    {k \in DOMAIN strategy_ret.call[2] :
        \E i \in DOMAIN strategy_ret.call[3] :
            strategy_ret.call[3][i] = <<strategy_ret.call[2][k], g>>}

\* the sum of the ratios of the columns cols
RECURSIVE SumOfColumns(_)
SumOfColumns(cols) ==
    IF cols = {} THEN Rational(0, 1)
    ELSE LET k == CHOOSE c \in cols : TRUE
         IN RAdd(strategy_ret.genotypes[k], SumOfColumns(cols \ {k}))

\* the groups of the registry of the last call
RegistryGroups == {strategy_ret.call[3][i][2] : i \in DOMAIN strategy_ret.call[3]}

\* C28: the computed table has one entry for each group with a member among
\* the header individuals and none for another group; the entry is the sum of
\* the dosage ratios of the columns of those members divided by their number;
\* the columns of individuals not in the registry enter no entry; the
\* computation raises nothing.
C28_MeanOfKnownMembers ==
    FrequenciesCalled =>
        /\ strategy_ret.outcome = "ok"
        /\ \A i, j \in DOMAIN strategy_ret.freqs :
              strategy_ret.freqs[i][1] = strategy_ret.freqs[j][1] => i = j
        /\ {strategy_ret.freqs[i][1] : i \in DOMAIN strategy_ret.freqs}
               = {g \in RegistryGroups : ColumnsOf(g) # {}}
        /\ \A i \in DOMAIN strategy_ret.freqs :
              LET cols == ColumnsOf(strategy_ret.freqs[i][1])
                  total == SumOfColumns(cols)
              IN strategy_ret.freqs[i][2].num * total.den * Cardinality(cols)
                     = total.num * strategy_ret.freqs[i][2].den

\* a header line with an individual of no registry between the two members of
\* a group, whose ratios 0 and 1 give the group the frequency 1/2
C28_Witness ==
    /\ FrequenciesCalled
    /\ strategy_ret.call[2] = <<"a", "d", "b">>
    /\ RegistryGroups = {"A"}
    /\ strategy_ret.genotypes = <<Rational(0, 1), Rational(1, 1), Rational(1, 1)>>
    /\ strategy_ret.freqs = << <<"A", Rational(1, 2)>> >>

----------------------------------------------------------------------------
(* The dosage ratio of a genotype field *)

MaxFieldLen == 4

\* genotype fields: every text of up to MaxFieldLen characters over two
\* alleles, the missing allele, the two separators and the colon
FieldChars == {"0", "1", ".", "|", "/", ":"}
VariantFields == UNION {[1..n -> FieldChars] : n \in 0..MaxFieldLen}

\* self.process_variant(fixed_fields, format_field, variant_field)
apply_process_variant(variant_field) ==
    /\ strategy_ret' = [call |-> <<"process_variant", "self", "fixed_fields",
                                   "format_field", variant_field>>,
                        alleles |-> process_variant_alleles(variant_field),
                        ratio |-> Predictor_process_variant(variant_field)]
    /\ UNCHANGED <<handlerVars, comparerVars, populationVars, modelVars, predictorVars,
                   randomVars, dispatchVars>>

NextVariant ==
    /\ strategy_ret = NoCall
    /\ \E variant_field \in VariantFields : apply_process_variant(variant_field)

SpecVariant == Init /\ [][NextVariant]_vars

\* the last call was one of process_variant
VariantCalled == strategy_ret # NoCall /\ Len(strategy_ret.call) = 5

\* the genotype call of a field: its characters before the first colon
CallOf(field) ==
    LET colons == {i \in DOMAIN field : field[i] = ":"}
    IN IF colons = {} THEN field
       ELSE SubSeq(field, 1, (CHOOSE i \in colons : \A j \in colons : i <= j) - 1)

\* the separators of a call, and the alleles they delimit: the allele that
\* begins at position i of the call ends before the next separator
Separators(call) == {i \in DOMAIN call : call[i] \in {"|", "/"}}
AlleleStarts(call) == {1} \cup {i + 1 : i \in Separators(call)}
AlleleAt(call, i) ==
    LET after == {j \in Separators(call) : j >= i}
    IN IF after = {} THEN SubSeq(call, i, Len(call))
       ELSE SubSeq(call, i, (CHOOSE j \in after : \A k \in after : j <= k) - 1)

\* a call has separators of one kind at most
OneKind(call) == \A i, j \in Separators(call) : call[i] = call[j]

----------------------------------------------------------------------------
(* TwoWayDict: stores and lookups *)

\* the keys: the pairs of two names, in both orders, and the pairs of a name
\* with itself
PairKeys == {<<x, y>> : x \in Range(GroupOrder), y \in Range(GroupOrder)}

\* d[key] = value of a TwoWayDict d, here the one a Model holds
TwoWayDict_store(key, value) ==
    /\ between' = TwoWayDict_setitem(between, key, value)
    /\ model_ret' = [call |-> <<"__setitem__", key>>, outcome |-> "ok", value |-> value]
    /\ UNCHANGED within
    /\ UNCHANGED notModelVars

\* d[key]: the dict raises KeyError for a key it does not hold
TwoWayDict_lookup(key) ==
    /\ model_ret' = IF DictHas(between, normalize_key(key))
                    THEN [call |-> <<"__getitem__", key>>, outcome |-> "ok",
                          value |-> TwoWayDict_getitem(between, key)]
                    ELSE [call |-> <<"__getitem__", key>>, outcome |-> "KeyError",
                          value |-> 0]
    /\ UNCHANGED <<within, between>>
    /\ UNCHANGED notModelVars

NextTwoWayDict ==
    \/ \E key \in PairKeys, value \in ObservationValues : TwoWayDict_store(key, value)
    \/ \E key \in PairKeys : TwoWayDict_lookup(key)

SpecTwoWayDict == Init /\ [][NextTwoWayDict]_vars

\* the other ordering of a key
Swapped(key) == <<key[2], key[1]>>

\* what the underlying map holds for the unordered pair of key: the values
\* stored under either ordering
HeldFor(d, key) == {d[i][2] : i \in {j \in DOMAIN d : d[j][1] \in {key, Swapped(key)}}}

\* what d[key] returns: no value when it raises KeyError
Lookup(d, key) ==
    IF DictHas(d, normalize_key(key)) THEN {TwoWayDict_getitem(d, key)} ELSE {}

\* the underlying map has one entry at most for an unordered pair
NeverBoth(d) ==
    \A i, j \in DOMAIN d : d[i][1] \in {d[j][1], Swapped(d[j][1])} => i = j

\* C30: after a store under a key both orderings of the key look up the value
\* stored, and the lookups of the other pairs are as before; a lookup returns
\* for either ordering of its key the value the map holds for the pair, and
\* raises KeyError for both when it holds none; the underlying map never has
\* both orderings of a pair.
C30_SymmetricLookup ==
    [][(model_ret' # NoCall /\ model_ret'.call[1] \in {"__setitem__", "__getitem__"}) =>
          LET key == model_ret'.call[2]
          IN /\ NeverBoth(between')
             /\ model_ret'.call[1] = "__setitem__" =>
                   /\ HeldFor(between', key) = {model_ret'.value}
                   /\ Lookup(between', key) = {model_ret'.value}
                   /\ Lookup(between', Swapped(key)) = {model_ret'.value}
                   /\ \A other \in PairKeys \ {key, Swapped(key)} :
                         HeldFor(between', other) = HeldFor(between, other)
             /\ model_ret'.call[1] = "__getitem__" =>
                   /\ between' = between
                   /\ model_ret'.outcome = "ok" =>
                         HeldFor(between, key) = {model_ret'.value}
                   /\ model_ret'.outcome = "KeyError" => HeldFor(between, key) = {}]_vars

\* a lookup under the ordering that the map does not hold, of a pair with a
\* value stored, another pair being held too
C30_Witness ==
    /\ model_ret # NoCall
    /\ model_ret.call = <<"__getitem__", <<"B", "A">>>>
    /\ model_ret.outcome = "ok"
    /\ model_ret.value = 3
    /\ Len(between) = 2
    /\ HeldFor(between, <<"A", "B">>) = {3}

----------------------------------------------------------------------------
(* Accumulators whose votes name one group *)

\* C31: when the votes of an individual being classified all name one group,
\* terminate completes, labels holds an entry for every individual being
\* classified and no other, and that individual has the label of the rule with
\* a second count of 0: its group when the top count (divided by itself when
\* 0 < t2 < 1) is >= t2, and "---" otherwise.
C31_SingleGroupLabelled ==
    (Terminated /\ \E k \in DOMAIN strategy_ret.structures :
                        Cardinality(Range(strategy_ret.structures[k][2])) = 1) =>
        /\ strategy_ret.outcome = "ok"
        /\ Range(DictKeys(strategy_ret.labels)) = Range(DictKeys(strategy_ret.structures))
        /\ Len(strategy_ret.labels) = Len(strategy_ret.structures)
        /\ \A k \in DOMAIN strategy_ret.structures :
              LET l == strategy_ret.structures[k][2]
              IN Cardinality(Range(l)) = 1 =>
                    DictGet(strategy_ret.labels, strategy_ret.structures[k][1])
                        = RuleLabel(l, l[1], strategy_ret.thr)

----------------------------------------------------------------------------
(* The running counts of a DefaultComparer *)

\* the step is the handling of a header line, of a data row under the header
\* line, of a metadata line, none of which raised
HeaderHandled == n_headers' = n_headers + 1 /\ err' = NoError
RowHandled == n_data' = n_data + 1 /\ n_headers = 1 /\ err' = NoError
MetaHandled == n_meta' = n_meta + 1

\* C32: in a run of a DefaultComparer the count of every pair is 0 when the
\* header line has been handled, a data row leaves it or adds 1 to it, a
\* metadata line leaves every count as it is, and no count exceeds the number
\* of data rows handled since the header line.
C32_CountsGrowByRows ==
    [][(handler_class = "DefaultComparer" /\ phase = "running") =>
          /\ HeaderHandled =>
                /\ Len(values') = Len(pairs')
                /\ \A i \in DOMAIN values' : values'[i] = 0
          /\ RowHandled =>
                /\ DOMAIN values' = DOMAIN values
                /\ \A i \in DOMAIN values : values'[i] - values[i] \in {0, 1}
          /\ MetaHandled => values' = values /\ pairs' = pairs
          /\ (phase' = "running" /\ n_headers' = 1 /\ err' = NoError) =>
                \A i \in DOMAIN values' :
                    0 <= values'[i] /\ values'[i] <= n_data' - n_pre']_vars

\* a run of a header line and two data rows in which one pair differed in
\* both rows and another in one
C32_Witness ==
    /\ handler_class = "DefaultComparer"
    /\ phase = "running"
    /\ n_headers = 1 /\ n_data = 2 /\ n_pre = 0
    /\ err = NoError
    /\ \E i, j \in DOMAIN values : values[i] = 2 /\ values[j] = 1

----------------------------------------------------------------------------
(* The pairs a finalized DefaultComparer holds *)

\* C33: after a consumption, the finalized values hold exactly the ordered
\* pairs of two distinct configured targets, and compare(a, a) for a
\* configured target a fails with a lookup error.
C33_NoSelfPair ==
    [][handler_class = "DefaultComparer" =>
          /\ Consumed' =>
                DOMAIN values' = {p \in Targets' \X Targets' : p[1] # p[2]}
          /\ \A a \in Targets :
                (Consumed /\ compare(a, a)) => ret'.outcome = "KeyError"]_vars

\* a failed lookup of a target with itself on a comparer that holds counts
\* for three targets
C33_Witness ==
    /\ handler_class = "DefaultComparer"
    /\ Consumed
    /\ n_data >= 1
    /\ Cardinality(Targets) = 3
    /\ ret # NoCall
    /\ ret.call = <<"a", "a">>
    /\ "a" \in Targets
    /\ ret.outcome = "KeyError"
    /\ \E b \in Targets : b # "a" /\ Comparer_compare(values, "a", b).value >= 1

----------------------------------------------------------------------------
(* The groups a registry enumerates *)

\* Population.groups and Population.items
Population_groups == DictKeys(group_to_individuals)
Population_items == group_to_individuals

\* C34: no operation on the registry removes a group: a group that groups()
\* enumerates is enumerated after every later add_individual and
\* remove_individual, a group that receives an individual is enumerated from
\* then on, and items() yields the same groups, each with its collection, the
\* empty one of a group that lost its last member included.
C34_GroupsAreKept ==
    [][/\ Range(Population_groups) \subseteq Range(Population_groups')
       /\ \A identifier \in Ids, group \in Groups :
             add_individual(identifier, group) => group \in Range(Population_groups')
       /\ {Population_items'[i][1] : i \in DOMAIN Population_items'}
              = Range(Population_groups')
       /\ \A i \in DOMAIN Population_items' :
             Population_items'[i][2] = GroupList(group_to_individuals', Population_groups'[i])
      ]_vars

\* a registry that enumerates a group whose last member has been removed,
\* next to a group that has a member
C34_Witness ==
    /\ population_ret # NoCall
    /\ population_ret.call[1] = "remove_individual"
    /\ population_ret.outcome = "ok"
    /\ Range(Population_groups) = {"A", "B"}
    /\ GroupList(group_to_individuals, "A") = <<>>
    /\ GroupList(group_to_individuals, "B") # <<>>

====
